---- MODULE Spec2Model ----
(***************************************************************************)
(* bbolt-rs: transactions over a copy-on-write B+tree file.                *)
(*                                                                         *)
(* The model follows src/src/tx.rs, src/src/bucket.rs, src/src/node.rs and *)
(* src/src/common/page.rs.  The modules the crate declares but that are    *)
(* not among the source files (db, freelist, cursor, common::meta, ...),   *)
(* and the bodies that are todo!() stubs there (api_commit, allocate,      *)
(* spill, rebalance), follow spec.md sections 4.B-4.H; those definitions   *)
(* say so in their comment.                                                *)
(*                                                                         *)
(* Byte strings are modelled by the integers 0..MaxByte: 0 is the empty    *)
(* string and the integer order is the lexicographic order.                *)
(***************************************************************************)
EXTENDS Integers, Sequences, FiniteSets, TLC

(* ------------------------------ bounds ------------------------------- *)
NThreads == 2
MaxByte == 2
MaxPgid == 8
MaxTxid == 2
MaxOps == 2
MaxSeq == 1
MaxFails == 1

(* ------------------------- program constants ------------------------- *)
BRANCH_PAGE_FLAG == 1
LEAF_PAGE_FLAG == 2
META_PAGE_FLAG == 4
FREE_LIST_PAGE_FLAG == 16
BUCKET_LEAF_FLAG == 1
ZERO_PGID == 0
DEFAULT_PAGE_SIZE == 4096

Threads == 1..NThreads
Bytes == 1..MaxByte
PgIds == 0..(MaxPgid - 1)
TxIds == 0..(MaxTxid + 1)

\* A bit test on a flags word: flags & bit != 0, for bit a power of two.
HasFlag(flags, bit) == (flags \div bit) % 2 = 1

(* ------------------------------- pages ------------------------------- *)
\* common/page.rs Page, with the body the page's type gives it: the element
\* array of a branch or leaf page (inodes) or the ids of a freelist page.
MkPage(flags, inodes, ids) == [flags |-> flags, inodes |-> inodes, ids |-> ids]

is_branch(p) == HasFlag(p.flags, BRANCH_PAGE_FLAG)
is_leaf(p) == HasFlag(p.flags, LEAF_PAGE_FLAG)
is_meta(p) == HasFlag(p.flags, META_PAGE_FLAG)
is_free_list(p) == HasFlag(p.flags, FREE_LIST_PAGE_FLAG)

\* common/inode.rs INode: flags, child pgid, key bytes, value bytes.
INode(flags, pgid, key, value) ==
  [flags |-> flags, pgid |-> pgid, key |-> key, value |-> value]

\* InBucket: the 16-byte bucket header.
InBucket(root, sequence) == [root |-> root, sequence |-> sequence]

\* Meta page: root bucket header, freelist pgid, high-water mark, txid and
\* whether the stored checksum verifies.
MkMeta(txid, root, fl, pgid, ok) ==
  [txid |-> txid, root |-> root, freelist |-> fl, pgid |-> pgid, ok |-> ok]

(* ------------------------------ freelist ----------------------------- *)
\* spec.md 4.B.  free: set of ids; pending: txid -> set of ids; cache: the
\* union of both.
EmptyPending == [x \in TxIds |-> {}]
MkFreelist(fr, pe, ca) == [free |-> fr, pending |-> pe, cache |-> ca]

AllPending(fl) == UNION {fl.pending[x] : x \in TxIds}

\* An allocate that takes the highest run of n contiguous free ids.
freelist_allocate_start_highest(fl, n) ==
  LET starts == {p \in fl.free : \A i \in 0..(n - 1) : (p + i) \in fl.free}
  IN IF starts = {} THEN 0
     ELSE CHOOSE p \in starts : \A q \in starts : q <= p

\* allocate(txid, n): the lowest run of n contiguous free ids, 0 when none.
freelist_allocate_start(fl, n) ==
  LET starts == {p \in fl.free : \A i \in 0..(n - 1) : (p + i) \in fl.free}
  IN IF starts = {} THEN 0
     ELSE CHOOSE p \in starts : \A q \in starts : p <= q

freelist_allocate(fl, n) ==
  LET p == freelist_allocate_start(fl, n)
      run == IF p = 0 THEN {} ELSE p..(p + n - 1)
  IN [pgid |-> p,
      fl |-> MkFreelist(fl.free \ run, fl.pending, fl.cache \ run)]

\* free(txid, page): page.id .. page.id + page.overflow go to pending[txid].
freelist_free(fl, txid, id, overflow) ==
  LET run == id..(id + overflow)
  IN MkFreelist(fl.free,
                [fl.pending EXCEPT ![txid] = @ \cup run],
                fl.cache \cup run)

\* release(txid): every pending[ptxid], ptxid <= txid, moves to free.
freelist_release(fl, txid) ==
  LET moved == UNION {fl.pending[x] : x \in {y \in TxIds : y <= txid}}
  IN MkFreelist(fl.free \cup moved,
                [x \in TxIds |-> IF x <= txid THEN {} ELSE fl.pending[x]],
                fl.cache)

\* A rollback that leaves the discarded ids in the cache.
freelist_rollback_keeping_cache(fl, txid) ==
  MkFreelist(fl.free, [fl.pending EXCEPT ![txid] = {}], fl.cache)

\* rollback(txid): pending[txid] is discarded.
freelist_rollback(fl, txid) ==
  MkFreelist(fl.free,
             [fl.pending EXCEPT ![txid] = {}],
             fl.cache \ fl.pending[txid])

freelist_freed(fl, id) == id \in fl.cache

\* read(page): the ids a freelist page holds are all free after a load;
\* write(page) puts the free ids and those pending into the page.
freelist_read(p) == MkFreelist(p.ids, EmptyPending, p.ids)

(* ------------------------------- state ------------------------------- *)
VARIABLES
  pc,             \* per thread: where it is in its transaction
  txmeta,         \* per thread: TxR.meta, the meta copied when the tx began
  is_rollback,    \* per thread: TxR.is_rollback
  metas,          \* the two meta pages, slots 0 and 1
  pages,          \* the data file as mapped: page id -> page
  unsynced,       \* page ids and meta slots (as -1, -2) written, not yet synced
  freelist,       \* the in-memory freelist of the open database
  nodes,          \* writer: BucketP.nodes of the root bucket, pgid -> node
  root_node,      \* writer: BucketP.root_node of the root bucket (0: None)
  bucket_header,  \* writer: BucketR.bucket_header of the root bucket
  buckets,        \* writer: BucketP.buckets of the root bucket (the names)
  txpages,        \* writer: TxW.pages, the dirty pages, pgid -> page
  nops,           \* writer: operations done so far (bounds a run)
  result,         \* the result of the last API call
  view0,          \* history: per reader, what it read when it began
  wbase,          \* history: the durable state when the writer began
  wend,           \* history: how the last writer ended
  wexp,           \* history: what the writer's Ok calls should have stored
  nfail,          \* environment: I/O errors and torn meta writes so far
  lastcommit      \* history: the meta of the last successful commit

vars == <<pc, txmeta, is_rollback, metas, pages, unsynced, freelist, nodes,
          root_node, bucket_header, buckets, txpages, nops, result, view0,
          wbase, wend, wexp, nfail, lastcommit>>

dbvars == <<metas, pages, unsynced, freelist>>
wsvars == <<nodes, root_node, bucket_header, buckets, txpages, nops>>
histvars == <<view0, wbase, wend, wexp, nfail, lastcommit>>

(* ------------------------------- meta -------------------------------- *)
\* spec.md 3 / 4.C meta(): the valid meta with the greatest txid.
authoritative(ms) ==
  IF ms[0].ok /\ ms[1].ok
  THEN (IF ms[1].txid > ms[0].txid THEN ms[1] ELSE ms[0])
  ELSE (IF ms[1].ok THEN ms[1] ELSE ms[0])

backend_meta == authoritative(metas)

\* Every meta written to slot 0.
meta_slot_first(txid) == txid % 1

\* The slot a meta of transaction txid is written to.
meta_slot(txid) == txid % 2

(* ------------------------------- nodes ------------------------------- *)
\* node.rs NodeW::read_in: the node of a page.  is_leaf is set to false
\* whatever the page is; key is the first inode's key.
read_in(page, pgid) ==
  [is_leaf |-> FALSE,
   key |-> IF Len(page.inodes) > 0 THEN page.inodes[1].key ELSE 0,
   pgid |-> pgid,
   inodes |-> page.inodes,
   unbalanced |-> FALSE,
   spilled |-> FALSE]

\* read_in's assertion: only a leaf or branch page is read.
read_in_ok(page) == is_leaf(page) \/ is_branch(page)

\* An insertion point that is always the end of the node.
lower_bound_at_end(inodes, key) == Len(inodes) + 1

\* binary_search_by over the inodes' keys (kept sorted): the index of the
\* inode with that key, or 0; and the insertion point (1-based).
search_exact(inodes, key) ==
  IF \E i \in 1..Len(inodes) : inodes[i].key = key
  THEN CHOOSE i \in 1..Len(inodes) : inodes[i].key = key
  ELSE 0

lower_bound(inodes, key) ==
  1 + Cardinality({i \in 1..Len(inodes) : inodes[i].key < key})

RemoveAt(s, i) == SubSeq(s, 1, i - 1) \o SubSeq(s, i + 1, Len(s))

\* node.rs NodeMut::put's panics: pgid at or above the high-water mark, or
\* an empty old or new key.
put_panics(hwm, old_key, new_key, pgid) ==
  pgid >= hwm \/ old_key = 0 \/ new_key = 0

\* node.rs NodeMut::put: the new inode is built from (flags, pgid, new_key,
\* old_key); it replaces the inode found by old_key or is inserted at the
\* insertion point.
put(n, old_key, new_key, value, pgid, flags) ==
  LET exact == search_exact(n.inodes, old_key)
      new_node == INode(flags, pgid, new_key, old_key)
  IN [n EXCEPT !.inodes =
        IF exact # 0 THEN [n.inodes EXCEPT ![exact] = new_node]
        ELSE LET i == lower_bound(n.inodes, old_key)
             IN SubSeq(n.inodes, 1, i - 1) \o <<new_node>>
                  \o SubSeq(n.inodes, i, Len(n.inodes))]

\* node.rs NodeMut::del.
del(n, key) ==
  LET exact == search_exact(n.inodes, key)
  IN [n EXCEPT !.inodes = IF exact # 0 THEN RemoveAt(n.inodes, exact) ELSE @,
               !.unbalanced = TRUE]

\* node.rs NodeMut::write: a leaf page when the node is a leaf, a branch
\* page otherwise; a leaf element holds flags, key and value, a branch
\* element key and pgid.
write(n) ==
  IF n.is_leaf
  THEN MkPage(LEAF_PAGE_FLAG,
              [i \in 1..Len(n.inodes) |->
                 INode(n.inodes[i].flags, 0, n.inodes[i].key, n.inodes[i].value)],
              {})
  ELSE MkPage(BRANCH_PAGE_FLAG,
              [i \in 1..Len(n.inodes) |->
                 INode(0, n.inodes[i].pgid, n.inodes[i].key, 0)],
              {})

(* ------------------------------ cursor ------------------------------- *)
\* bucket.rs BucketImpl::page_node: the cached node of a page id when there
\* is one, the page otherwise.
page_node(pgs, nds, id) ==
  IF id \in DOMAIN nds
  THEN [tree |-> TRUE, leaf |-> nds[id].is_leaf, inodes |-> nds[id].inodes]
  ELSE [tree |-> is_leaf(pgs[id]) \/ is_branch(pgs[id]),
        leaf |-> is_leaf(pgs[id]),
        inodes |-> pgs[id].inodes]

SeekPanic == [st |-> "panic", k |-> 0, v |-> 0, flags |-> 0, leaf |-> 0]

\* spec.md 4.F seek: down the branches, then the first leaf element at or
\* after the key.  A page that is no tree page, or a branch without
\* elements, cannot be searched.  A search descends into the last branch
\* element whose key is at most the target, the first one when all keys
\* are greater.
RECURSIVE seek_at(_, _, _, _, _)
seek_at(pgs, nds, id, key, depth) ==
  LET pn == page_node(pgs, nds, id)
  IN IF ~pn.tree \/ depth = 0 THEN SeekPanic
     ELSE IF pn.leaf
     THEN LET i == lower_bound(pn.inodes, key)
          IN IF i > Len(pn.inodes) THEN [SeekPanic EXCEPT !.st = "none", !.leaf = id]
             ELSE [st |-> "some", k |-> pn.inodes[i].key,
                   v |-> pn.inodes[i].value, flags |-> pn.inodes[i].flags,
                   leaf |-> id]
     ELSE IF pn.inodes = <<>> THEN SeekPanic
     ELSE LET le == {i \in 1..Len(pn.inodes) : pn.inodes[i].key <= key}
              at == IF le = {} THEN 1 ELSE CHOOSE i \in le : \A j \in le : j <= i
          IN seek_at(pgs, nds, pn.inodes[at].pgid,
                  key, depth - 1)

MaxDepth == 3
i_seek(pgs, nds, root, key) == seek_at(pgs, nds, root, key, MaxDepth)

\* spec.md 4.F first and next: the leaf elements from the leftmost leaf
\* on, in the order of the branch elements above them.  The walk ends in a
\* panic where a seek would: at a page that is no tree page and at a branch
\* without elements.
RECURSIVE walk(_, _, _, _)
RECURSIVE walk_children(_, _, _, _, _)
walk(pgs, nds, id, depth) ==
  LET pn == page_node(pgs, nds, id)
  IN IF ~pn.tree \/ depth = 0 THEN [elems |-> <<>>, panic |-> TRUE]
     ELSE IF pn.leaf THEN [elems |-> pn.inodes, panic |-> FALSE]
     ELSE IF pn.inodes = <<>> THEN [elems |-> <<>>, panic |-> TRUE]
     ELSE walk_children(pgs, nds, pn.inodes, 1, depth - 1)

walk_children(pgs, nds, inodes, i, depth) ==
  IF i > Len(inodes) THEN [elems |-> <<>>, panic |-> FALSE]
  ELSE LET w == walk(pgs, nds, inodes[i].pgid, depth)
       IN IF w.panic THEN w
          ELSE LET rest == walk_children(pgs, nds, inodes, i + 1, depth)
               IN [elems |-> w.elems \o rest.elems, panic |-> rest.panic]

i_walk(pgs, nds, root) == walk(pgs, nds, root, MaxDepth)

\* bucket.rs BucketImpl::node: the node of a page id, read in once and kept
\* in the bucket's node cache.
node(pgs, nds, pgid) ==
  IF pgid \in DOMAIN nds THEN nds ELSE nds @@ (pgid :> read_in(pgs[pgid], pgid))

(* --------------------------- bucket calls ---------------------------- *)
MAX_KEY_SIZE == 32768
MAX_VALUE_SIZE == 2147483646

PAGE_HEADER_SIZE == 16
IN_BUCKET_SIZE == 16
INLINE_PAGE_SIZE == IN_BUCKET_SIZE + PAGE_HEADER_SIZE

\* The value of a bucket entry: the header InBucket{root, 0}, followed by an
\* empty inline page when root is 0.  It is modelled by a number above
\* MaxByte.
BucketValue(root) == MaxByte + 1 + root

\* Byte strings at and just over the size caps of put: a key of
\* MAX_KEY_SIZE bytes and one byte more, a value of MAX_VALUE_SIZE bytes and
\* one byte more.  A long key sorts after every one-byte key.
KeyAtCap == MaxByte + MaxPgid + 1
KeyOverCap == MaxByte + MaxPgid + 2
ValueAtCap == MaxByte + MaxPgid + 3
ValueOverCap == MaxByte + MaxPgid + 4

\* A value long enough for four of its elements to overfill a page, and
\* further one-byte keys, in ascending order after the others.
BIG_VALUE_SIZE == 1000
BigValue == MaxByte + MaxPgid + 5
ExtraKey(i) == BigValue + i

\* Long keys, three of whose elements overfill a page; they sort after
\* the one-byte keys ExtraKey(1) to ExtraKey(BIG_KEY_SIZE).
BIG_KEY_SIZE == 1500

\* The keys a bucket may hold.
Keys == Bytes \cup {KeyAtCap}

\* The length of a modelled byte string.
len(b) ==
  IF b = 0 THEN 0
  ELSE IF b <= MaxByte THEN 1
  ELSE IF b > MaxByte /\ b <= MaxByte + MaxPgid
  THEN (IF b - MaxByte - 1 = ZERO_PGID THEN INLINE_PAGE_SIZE ELSE IN_BUCKET_SIZE)
  ELSE IF b = KeyAtCap THEN MAX_KEY_SIZE
  ELSE IF b = KeyOverCap THEN MAX_KEY_SIZE + 1
  ELSE IF b = ValueAtCap THEN MAX_VALUE_SIZE
  ELSE IF b = ValueOverCap THEN MAX_VALUE_SIZE + 1
  ELSE IF b = BigValue THEN BIG_VALUE_SIZE
  ELSE IF b > ExtraKey(BIG_KEY_SIZE) THEN BIG_KEY_SIZE
  ELSE 1

Ret(res, nds) == [res |-> res, nodes |-> nds]

\* bucket.rs BucketImpl::api_get: -1 a panic (unwrap of no element), 0 none,
\* otherwise the value.
api_get(pgs, nds, root, key) ==
  LET s == i_seek(pgs, nds, root, key)
  IN IF s.st # "some" THEN -1
     ELSE IF HasFlag(s.flags, BUCKET_LEAF_FLAG) THEN 0
     ELSE IF key # s.k THEN 0
     ELSE s.v

\* The size checks with each cap taken as the first length refused.
put_size_error_cap_excluded(key, value) ==
  IF len(key) = 0 THEN "KeyRequired"
  ELSE IF len(key) >= MAX_KEY_SIZE THEN "KeyTooLarge"
  ELSE IF len(value) >= MAX_VALUE_SIZE THEN "ValueTooLarge"
  ELSE "none"

\* bucket.rs BucketImpl::api_put, its first lines: the error of a key or
\* value that the size checks refuse, "none" when they pass.
put_size_error(key, value) ==
  IF len(key) = 0 THEN "KeyRequired"
  ELSE IF len(key) > MAX_KEY_SIZE THEN "KeyTooLarge"
  ELSE IF len(value) > MAX_VALUE_SIZE THEN "ValueTooLarge"
  ELSE "none"

\* bucket.rs BucketImpl::api_put.
api_put(pgs, nds, root, hwm, key, value) ==
  IF put_size_error(key, value) # "none"
  THEN Ret(put_size_error(key, value), nds)
  ELSE LET s == i_seek(pgs, nds, root, key)
       IN IF s.st # "some" THEN Ret("panic", nds)
          ELSE IF HasFlag(s.flags, BUCKET_LEAF_FLAG) \/ key # s.k
          THEN Ret("IncompatibleValue", nds)
          ELSE IF put_panics(hwm, key, key, ZERO_PGID) THEN Ret("panic", nds)
          ELSE LET nds1 == node(pgs, nds, s.leaf)
               IN Ret("Ok", [nds1 EXCEPT ![s.leaf] =
                               put(@, key, key, value, ZERO_PGID, 0)])

\* bucket.rs BucketImpl::api_delete.
api_delete(pgs, nds, root, key) ==
  LET s == i_seek(pgs, nds, root, key)
  IN IF s.st # "some" THEN Ret("panic", nds)
     ELSE IF key # s.k THEN Ret("Ok", nds)
     ELSE IF HasFlag(s.flags, BUCKET_LEAF_FLAG) THEN Ret("IncompatibleValue", nds)
     ELSE LET nds1 == node(pgs, nds, s.leaf)
          IN Ret("Ok", [nds1 EXCEPT ![s.leaf] = del(@, key)])

\* bucket.rs BucketImpl::api_bucket, as far as its Option goes: "some" when
\* the name is in the writer's cache of opened buckets or is found as a
\* bucket (the caller then holds it in the cache), "none" when it is not,
\* "panic" when the search fails.  A reader has no cache.  open_bucket's
\* bytemuck::from_bytes::<InBucket> takes a slice of exactly the header's
\* size and panics on any other.
api_bucket(pgs, nds, bkts, root, name) ==
  LET s == i_seek(pgs, nds, root, name)
  IN IF name \in bkts THEN "some"
     ELSE IF s.st = "panic" THEN "panic"
     ELSE IF s.st = "none" THEN "none"
     ELSE IF name # s.k \/ ~HasFlag(s.flags, BUCKET_LEAF_FLAG) THEN "none"
     ELSE IF len(s.v) # IN_BUCKET_SIZE THEN "panic"
     ELSE "some"

\* bucket.rs BucketImpl::api_create_bucket.  The inode is put into the leaf
\* node, then the new bucket is looked up again and unwrapped.
api_create_bucket(pgs, nds, bkts, root, hwm, key) ==
  IF len(key) = 0 THEN Ret("BucketNameRequired", nds)
  ELSE LET s == i_seek(pgs, nds, root, key)
       IN IF s.st = "panic" THEN Ret("panic", nds)
          ELSE IF s.st = "some" /\ s.k = key
          THEN (IF HasFlag(s.flags, BUCKET_LEAF_FLAG)
                THEN Ret("BucketExists", nds)
                ELSE Ret("IncompatibleValue", nds))
          ELSE IF put_panics(hwm, key, key, ZERO_PGID) THEN Ret("panic", nds)
          ELSE LET nds1 == node(pgs, nds, s.leaf)
                   nds2 == [nds1 EXCEPT ![s.leaf] =
                              put(@, key, key, 0, ZERO_PGID, BUCKET_LEAF_FLAG)]
               IN IF api_bucket(pgs, nds2, bkts, root, key) = "some"
                  THEN Ret("Ok", nds2)
                  ELSE Ret("panic", nds2)

\* bucket.rs BucketImpl::api_create_bucket_if_not_exists: create_bucket,
\* and on BucketExists the bucket is looked up and unwrapped.
api_create_bucket_if_not_exists(pgs, nds, bkts, root, hwm, key) ==
  LET r == api_create_bucket(pgs, nds, bkts, root, hwm, key)
  IN IF r.res = "BucketExists"
     THEN (IF api_bucket(pgs, r.nodes, bkts, root, key) = "some"
           THEN Ret("Ok", r.nodes)
           ELSE Ret("panic", r.nodes))
     ELSE r

\* bucket.rs BucketImpl::api_delete_bucket, up to the unwrap of the child
\* bucket: a key that passes the two checks is no bucket, so the child
\* lookup yields none.
api_delete_bucket(pgs, nds, bkts, root, key) ==
  LET s == i_seek(pgs, nds, root, key)
  IN IF s.st # "some" THEN Ret("panic", nds)
     ELSE IF key # s.k THEN Ret("BucketNotFound", nds)
     ELSE IF HasFlag(s.flags, BUCKET_LEAF_FLAG) THEN Ret("IncompatibleValue", nds)
     ELSE IF api_bucket(pgs, nds, bkts, root, key) # "some" THEN Ret("panic", nds)
     ELSE Ret("Ok", nds)

\* bucket.rs BucketImpl::api_set_sequence: the root node is materialized
\* through node() when root_node is None, then the header is set.
api_set_sequence(pgs, nds, rn, hdr, v) ==
  IF rn = 0 /\ ~(hdr.root \in DOMAIN nds) /\ ~read_in_ok(pgs[hdr.root])
  THEN [res |-> "panic", nodes |-> nds, hdr |-> hdr]
  ELSE [res |-> "Ok",
        nodes |-> IF rn = 0 THEN node(pgs, nds, hdr.root) ELSE nds,
        hdr |-> [hdr EXCEPT !.sequence = v]]

\* common::bucket::InBucket::inc_sequence.
inc_sequence(hdr) == [hdr EXCEPT !.sequence = hdr.sequence + 1]

\* A next_sequence that returns the sequence it found.
api_next_sequence_returning_old(pgs, nds, rn, hdr) ==
  IF rn = 0 /\ ~(hdr.root \in DOMAIN nds) /\ ~read_in_ok(pgs[hdr.root])
  THEN [res |-> "panic", nodes |-> nds, hdr |-> hdr, seq |-> 0]
  ELSE [res |-> "Ok",
        nodes |-> IF rn = 0 THEN node(pgs, nds, hdr.root) ELSE nds,
        hdr |-> inc_sequence(hdr),
        seq |-> hdr.sequence]

\* bucket.rs BucketImpl::api_next_sequence: the root node is materialized
\* as in api_set_sequence, the header's sequence is incremented and the
\* header's sequence is returned.
api_next_sequence(pgs, nds, rn, hdr) ==
  IF rn = 0 /\ ~(hdr.root \in DOMAIN nds) /\ ~read_in_ok(pgs[hdr.root])
  THEN [res |-> "panic", nodes |-> nds, hdr |-> hdr, seq |-> 0]
  ELSE [res |-> "Ok",
        nodes |-> IF rn = 0 THEN node(pgs, nds, hdr.root) ELSE nds,
        hdr |-> inc_sequence(hdr),
        seq |-> inc_sequence(hdr).sequence]

\* common/tree.rs LEAF_PAGE_ELEMENT_SIZE: flags, key offset, key size and
\* value size, four bytes each.
LEAF_PAGE_ELEMENT_SIZE == 16

\* bucket.rs BucketIAPI::max_inline_bucket_size.
max_inline_bucket_size(page_size) == page_size \div 4

\* The size inlineable's loop has summed when it has added element i.
inline_size(inodes, i) ==
  LET RECURSIVE sum(_)
      sum(j) == IF j = 0 THEN PAGE_HEADER_SIZE
                ELSE sum(j - 1) + LEAF_PAGE_ELEMENT_SIZE
                     + len(inodes[j].key) + len(inodes[j].value)
  IN sum(i)

\* bucket.rs BucketImpl::inlineable: false without a root node, false when
\* the root node is a leaf, false at the first element that is a bucket or
\* takes the size above the threshold, true otherwise.  rn is the page id
\* of the root node, 0 for None.
inlineable(rn, nds, page_size) ==
  IF rn = 0 THEN FALSE
  ELSE IF nds[rn].is_leaf THEN FALSE
  ELSE \A i \in 1..Len(nds[rn].inodes) :
         /\ ~HasFlag(nds[rn].inodes[i].flags, BUCKET_LEAF_FLAG)
         /\ ~(inline_size(nds[rn].inodes, i) > max_inline_bucket_size(page_size))

\* The loop of for_each over the elements a walk yields, with an f that
\* returns an error at key fk and Ok at every other key: the keys f was
\* called with and what the loop returns.
for_each_loop(elems, panic, fk) ==
  LET keys == [i \in 1..Len(elems) |-> elems[i].key]
      hit == {i \in 1..Len(keys) : keys[i] = fk}
  IN IF hit # {}
     THEN [res |-> "FnError",
           calls |-> SubSeq(keys, 1, CHOOSE i \in hit : \A j \in hit : i <= j)]
     ELSE [res |-> IF panic THEN "panic" ELSE "Ok", calls |-> keys]

IsBucketElem(e) == HasFlag(e.flags, BUCKET_LEAF_FLAG)

\* A for_each_bucket that calls f on the entries that are no buckets.
api_for_each_bucket_on_plain(pgs, nds, root, fk) ==
  LET w == i_walk(pgs, nds, root)
      plain(e) == ~IsBucketElem(e)
  IN for_each_loop(SelectSeq(w.elems, plain), w.panic, fk)

\* bucket.rs BucketImpl::api_for_each.
api_for_each(pgs, nds, root, fk) ==
  LET w == i_walk(pgs, nds, root)
  IN for_each_loop(w.elems, w.panic, fk)

\* bucket.rs BucketImpl::api_for_each_bucket.
api_for_each_bucket(pgs, nds, root, fk) ==
  LET w == i_walk(pgs, nds, root)
  IN for_each_loop(SelectSeq(w.elems, IsBucketElem), w.panic, fk)

(* --------------------------- initial state --------------------------- *)
EmptyFn == [x \in {} |-> 0]
NoMeta == MkMeta(0, InBucket(0, 0), 0, 0, FALSE)
Untouched == 0 - 2
NoExp == [k \in Keys |-> Untouched]

\* What a database file may hold in its root leaf when it is opened: each
\* key is absent or a plain key, and the last one may be the entry of an
\* empty inline bucket.
RECURSIVE InitLeavesUpTo(_)
InitLeavesUpTo(k) ==
  IF k = 0 THEN {<<>>}
  ELSE {l \o e : l \in InitLeavesUpTo(k - 1),
                  e \in {<<>>, <<INode(0, 0, k, MaxByte)>>}
                    \cup (IF k = MaxByte
                          THEN {<<INode(BUCKET_LEAF_FLAG, 0, k, BucketValue(ZERO_PGID))>>}
                          ELSE {})}

\* spec.md 6 and S1: pages 0 and 1 are the metas, both valid, txid 0; page
\* 2 is the empty freelist, page 3 the root bucket's leaf.
InitMeta == MkMeta(0, InBucket(3, 0), 2, 4, TRUE)

InitPages(leaf) ==
  [p \in PgIds |->
     IF p < 2 THEN MkPage(META_PAGE_FLAG, <<>>, {})
     ELSE IF p = 2 THEN MkPage(FREE_LIST_PAGE_FLAG, <<>>, {})
     ELSE IF p = 3 THEN MkPage(LEAF_PAGE_FLAG, leaf, {})
     ELSE MkPage(0, <<>>, {})]

\* What a transaction with meta m reads: its id and size, the root
\* bucket's sequence, and get and bucket of every key.
TxView(pgs, m) ==
  [id |-> m.txid,
   size |-> m.pgid * DEFAULT_PAGE_SIZE,
   sequence |-> m.root.sequence,
   get |-> [k \in Bytes |-> api_get(pgs, EmptyFn, m.root.root, k)],
   bucket |-> [k \in Bytes |-> api_bucket(pgs, EmptyFn, {}, m.root.root, k)]]

NoView == [id |-> 0 - 1]

Init ==
  /\ pc = [t \in Threads |-> "idle"]
  /\ txmeta = [t \in Threads |-> NoMeta]
  /\ is_rollback = [t \in Threads |-> FALSE]
  /\ metas = [i \in {0, 1} |-> InitMeta]
  /\ \E leaf \in InitLeavesUpTo(MaxByte) : pages = InitPages(leaf)
  /\ unsynced = {}
  /\ freelist = MkFreelist({}, EmptyPending, {})
  /\ nodes = EmptyFn
  /\ root_node = 0
  /\ bucket_header = InBucket(0, 0)
  /\ buckets = {}
  /\ txpages = EmptyFn
  /\ nops = 0
  /\ result = <<"none", 0, 0, "Ok">>
  /\ view0 = [t \in Threads |-> NoView]
  /\ wbase = <<>>
  /\ wend = "none"
  /\ wexp = NoExp
  /\ nfail = 0
  /\ lastcommit = NoMeta

(* ------------------------------ the lock ----------------------------- *)
Readers == {t \in Threads : pc[t] = "read"}
WriterStates == {"write", "spilled", "flwritten", "written", "synced", "metawritten"}
Writers == {t \in Threads : pc[t] \in WriterStates}

\* A read lock that a writer does not hold back.
CanAcquireReadBesideWriter == TRUE

\* tx.rs TxImpl.lock: a RwLockReadGuard on the database is held for the
\* life of a read transaction; it is granted while no write guard is held.
CanAcquireRead == Writers = {}

\* A write lock that the open readers do not hold back.
CanAcquireWriteBesideReaders == Writers = {}

\* A write lock that another writer does not hold back.
CanAcquireWriteBesideWriter == Readers = {}

\* tx.rs TxRwImpl.lock: a RwLockWriteGuard on the same lock is held for the
\* life of a write transaction; it is granted while no guard at all is held.
CanAcquireWrite == Readers = {} /\ Writers = {}

\* db.begin() is called: the thread asks for the read lock.
RequestRead(t) ==
  /\ pc[t] = "idle"
  /\ pc' = [pc EXCEPT ![t] = "waitR"]
  /\ UNCHANGED <<txmeta, is_rollback, dbvars, wsvars, result, histvars>>

\* tx.rs TxImpl::new, once the read lock is granted: meta is copied.
BeginRead(t) ==
  /\ pc[t] = "waitR"
  /\ CanAcquireRead
  /\ pc' = [pc EXCEPT ![t] = "read"]
  /\ txmeta' = [txmeta EXCEPT ![t] = backend_meta]
  /\ is_rollback' = [is_rollback EXCEPT ![t] = FALSE]
  /\ view0' = [view0 EXCEPT ![t] = TxView(pages, backend_meta)]
  /\ UNCHANGED <<dbvars, wsvars, result, wbase, wend, wexp, nfail, lastcommit>>

\* tx.rs TxImpl rollback and Drop: is_rollback is set, the guard is dropped.
CloseRead(t) ==
  /\ pc[t] = "read"
  /\ pc' = [pc EXCEPT ![t] = "idle"]
  /\ txmeta' = [txmeta EXCEPT ![t] = NoMeta]
  /\ is_rollback' = [is_rollback EXCEPT ![t] = TRUE]
  /\ view0' = [view0 EXCEPT ![t] = NoView]
  /\ UNCHANGED <<dbvars, wsvars, result, wbase, wend, wexp, nfail, lastcommit>>

\* db.begin_rw() is called: the thread asks for the write lock.
RequestWrite(t) ==
  /\ pc[t] = "idle"
  /\ backend_meta.txid < MaxTxid
  /\ pc' = [pc EXCEPT ![t] = "waitW"]
  /\ UNCHANGED <<txmeta, is_rollback, dbvars, wsvars, result, histvars>>

\* tx.rs TxRwImpl::new, once the write lock is granted: meta is copied, the
\* root bucket gets meta's header and empty caches, no page is dirty.
BeginRW(t) ==
  /\ pc[t] = "waitW"
  /\ CanAcquireWrite
  /\ pc' = [pc EXCEPT ![t] = "write"]
  /\ txmeta' = [txmeta EXCEPT ![t] = backend_meta]
  /\ is_rollback' = [is_rollback EXCEPT ![t] = FALSE]
  /\ nodes' = EmptyFn
  /\ root_node' = 0
  /\ bucket_header' = backend_meta.root
  /\ buckets' = {}
  /\ txpages' = EmptyFn
  /\ nops' = 0
  /\ wbase' = <<metas, pages, unsynced, freelist>>
  /\ wend' = "active"
  /\ wexp' = NoExp
  /\ result' = <<"begin_rw", 0, 0, "Ok">>
  /\ UNCHANGED <<dbvars, view0, nfail, lastcommit>>

(* ------------------------- writer operations ------------------------- *)
\* tx.rs Drop for TxRwImpl: the workspace goes with the arena and the write
\* guard is dropped; the freelist is not reloaded.
DropWriter(t, how) ==
  /\ pc' = [pc EXCEPT ![t] = "idle"]
  /\ txmeta' = [txmeta EXCEPT ![t] = NoMeta]
  /\ nodes' = EmptyFn
  /\ root_node' = 0
  /\ bucket_header' = InBucket(0, 0)
  /\ buckets' = {}
  /\ txpages' = EmptyFn
  /\ wend' = how

\* A call whose error also ends the transaction: whatever is not Ok unwinds.
WriterCallAbortingOnError(t, call, r, hdr, bk, exp) ==
  IF r.res # "Ok"
  THEN /\ DropWriter(t, "panicked")
       /\ nops' = nops + 1
       /\ result' = Append(call, r.res)
       /\ wexp' = NoExp
       /\ UNCHANGED <<is_rollback, dbvars, view0, wbase, nfail, lastcommit>>
  ELSE /\ nodes' = r.nodes
       /\ bucket_header' = hdr
       /\ buckets' = bk
       /\ nops' = nops + 1
       /\ result' = Append(call, r.res)
       /\ wexp' = exp
       /\ UNCHANGED <<pc, txmeta, is_rollback, dbvars, root_node, txpages,
                      view0, wbase, wend, nfail, lastcommit>>

\* A call in the writer's closure (its name, key and value) returned r: a
\* panic unwinds through the transaction, any other result leaves it open
\* with the nodes, header and bucket cache the call left.
WriterCall(t, call, r, hdr, bk, exp) ==
  IF r.res = "panic"
  THEN /\ DropWriter(t, "panicked")
       /\ nops' = nops + 1
       /\ result' = Append(call, "panic")
       /\ wexp' = NoExp
       /\ UNCHANGED <<is_rollback, dbvars, view0, wbase, nfail, lastcommit>>
  ELSE /\ nodes' = r.nodes
       /\ bucket_header' = hdr
       /\ buckets' = bk
       /\ nops' = nops + 1
       /\ result' = Append(call, r.res)
       /\ wexp' = IF r.res = "Ok" THEN exp ELSE wexp
       /\ UNCHANGED <<pc, txmeta, is_rollback, dbvars, root_node, txpages,
                      view0, wbase, wend, nfail, lastcommit>>

InWrite(t) == pc[t] = "write" /\ nops < MaxOps

Put(t, k, v) ==
  /\ InWrite(t)
  /\ WriterCall(t, <<"put", k, v>>,
                api_put(pages, nodes, bucket_header.root, txmeta[t].pgid, k, v),
                bucket_header, buckets,
                IF k \in Keys THEN [wexp EXCEPT ![k] = v] ELSE wexp)

Delete(t, k) ==
  /\ InWrite(t)
  /\ WriterCall(t, <<"delete", k, 0>>,
                api_delete(pages, nodes, bucket_header.root, k),
                bucket_header, buckets,
                IF k \in Keys THEN [wexp EXCEPT ![k] = 0] ELSE wexp)

CreateBucket(t, k) ==
  /\ InWrite(t)
  /\ LET r == api_create_bucket(pages, nodes, buckets, bucket_header.root,
                                txmeta[t].pgid, k)
     IN WriterCall(t, <<"create_bucket", k, 0>>, r, bucket_header,
                   IF r.res = "Ok" THEN buckets \cup {k} ELSE buckets, wexp)

CreateBucketIfNotExists(t, k) ==
  /\ InWrite(t)
  /\ LET r == api_create_bucket_if_not_exists(pages, nodes, buckets,
                                              bucket_header.root,
                                              txmeta[t].pgid, k)
     IN WriterCall(t, <<"create_bucket_if_not_exists", k, 0>>, r,
                   bucket_header,
                   IF r.res = "Ok" THEN buckets \cup {k} ELSE buckets, wexp)

DeleteBucket(t, k) ==
  /\ InWrite(t)
  /\ WriterCall(t, <<"delete_bucket", k, 0>>,
                api_delete_bucket(pages, nodes, buckets, bucket_header.root, k),
                bucket_header, buckets, wexp)

SetSequence(t, v) ==
  /\ InWrite(t)
  /\ LET r == api_set_sequence(pages, nodes, root_node, bucket_header, v)
     IN WriterCall(t, <<"set_sequence", 0, v>>, r, r.hdr, buckets, wexp)

\* next_sequence; the value it returns is recorded as the call's value.
NextSequence(t) ==
  /\ InWrite(t)
  /\ bucket_header.sequence <= MaxSeq
  /\ LET r == api_next_sequence(pages, nodes, root_node, bucket_header)
     IN WriterCall(t, <<"next_sequence", 0, r.seq>>, r, r.hdr, buckets, wexp)

\* bucket(name): what the Option holds is the call's result, and a bucket
\* that was found is in the cache afterwards.
Bucket(t, name) ==
  /\ InWrite(t)
  /\ LET r == api_bucket(pages, nodes, buckets, bucket_header.root, name)
     IN WriterCall(t, <<"bucket", name, 0>>, Ret(r, nodes), bucket_header,
                   IF r = "some" THEN buckets \cup {name} ELSE buckets, wexp)

\* for_each with an f that fails at key fk (at no key when fk is 0); the
\* keys f was called with are recorded as the call's value.
ForEach(t, fk) ==
  /\ InWrite(t)
  /\ LET r == api_for_each(pages, nodes, bucket_header.root, fk)
     IN WriterCall(t, <<"for_each", fk, r.calls>>,
                   [res |-> r.res, nodes |-> nodes], bucket_header, buckets,
                   wexp)

ForEachBucket(t, fk) ==
  /\ InWrite(t)
  /\ LET r == api_for_each_bucket(pages, nodes, bucket_header.root, fk)
     IN WriterCall(t, <<"for_each_bucket", fk, r.calls>>,
                   [res |-> r.res, nodes |-> nodes], bucket_header, buckets,
                   wexp)

\* A rollback that writes the writer's nodes through to their pages.
RollbackWritingThrough(t) ==
  /\ pc[t] = "write"
  /\ is_rollback' = [is_rollback EXCEPT ![t] = TRUE]
  /\ DropWriter(t, "rolledback")
  /\ pages' = [p \in PgIds |-> IF p \in DOMAIN nodes THEN write(nodes[p]) ELSE pages[p]]
  /\ UNCHANGED <<metas, unsynced, freelist, nops, result, view0, wbase, wexp,
                 nfail, lastcommit>>

\* A rollback that sets the flag and leaves the transaction open.
RollbackFlagOnly(t) ==
  /\ pc[t] = "write"
  /\ ~is_rollback[t]
  /\ is_rollback' = [is_rollback EXCEPT ![t] = TRUE]
  /\ UNCHANGED <<pc, txmeta, dbvars, wsvars, result, histvars>>

\* tx.rs rollback, then Drop for TxRwImpl.
Rollback(t) ==
  /\ pc[t] = "write"
  /\ is_rollback' = [is_rollback EXCEPT ![t] = TRUE]
  /\ DropWriter(t, "rolledback")
  /\ UNCHANGED <<dbvars, nops, result, view0, wbase, wexp, nfail, lastcommit>>

(* ------------------------------ commit ------------------------------- *)
\* tx.rs api_commit and allocate are todo!() and the freelist module is not
\* among the sources: the commit below is the protocol of spec.md 4.G, over
\* the nodes, pages and metas of the code.

\* spec.md 4.B free: the ids are at least 2 and not yet in the cache.
freelist_free_ok(fl, id, overflow) ==
  id >= 2 /\ (id..(id + overflow)) \cap fl.cache = {}

\* spec.md 4.C allocate(n): from the freelist when it has a run, above the
\* high-water mark otherwise; the file cannot grow beyond the page ids of
\* the model (MaxPgid of them, MaxTreePgid for a tree of nodes).
tx_allocate(fl, hwm, n) ==
  LET r == freelist_allocate(fl, n)
  IN IF r.pgid # 0 THEN [ok |-> TRUE, pgid |-> r.pgid, fl |-> r.fl, hwm |-> hwm]
     ELSE IF hwm + n > Cardinality(DOMAIN pages)
     THEN [ok |-> FALSE, pgid |-> 0, fl |-> fl, hwm |-> hwm]
     ELSE [ok |-> TRUE, pgid |-> hwm, fl |-> fl, hwm |-> hwm + n]

\* spec.md 4.D rebalance over the touched nodes.  A bucket's tree is a
\* single node here, which has no sibling to merge with and no branch child
\* to collapse into.
rebalance(nds) == [p \in DOMAIN nds |-> [nds[p] EXCEPT !.unbalanced = FALSE]]

\* A failed commit that leaves its pending set in the freelist.
FailCommitKeepingPending(t, how) ==
  /\ freelist' = freelist
  /\ is_rollback' = [is_rollback EXCEPT ![t] = TRUE]
  /\ DropWriter(t, how)
  /\ nops' = 0
  /\ result' = <<"commit", 0, 0, "Err">>
  /\ wexp' = NoExp
  /\ UNCHANGED <<view0, wbase, lastcommit>>

\* The way a commit that fails before its meta is valid ends (spec.md 4.G):
\* dirty pages are discarded, freelist.rollback(txid), the transaction is
\* Rolled-back.
FailCommit(t, how) ==
  /\ freelist' = freelist_rollback(freelist, txmeta[t].txid)
  /\ is_rollback' = [is_rollback EXCEPT ![t] = TRUE]
  /\ DropWriter(t, how)
  /\ nops' = 0
  /\ result' = <<"commit", 0, 0, "Err">>
  /\ wexp' = NoExp
  /\ UNCHANGED <<view0, wbase, lastcommit>>

\* Steps 1 and 2: rebalance, then spill of the root bucket when it has
\* nodes: the old page is freed, a page is allocated, the node is written
\* into it (node.rs write) and the bucket header points at it.
CommitSpill(t) ==
  /\ pc[t] = "write"
  /\ IF nodes = EmptyFn
     THEN /\ pc' = [pc EXCEPT ![t] = "spilled"]
          /\ UNCHANGED <<txmeta, is_rollback, dbvars, wsvars, result, histvars>>
     ELSE LET n == rebalance(nodes)[bucket_header.root]
              txid == txmeta[t].txid
              freed == IF n.pgid = ZERO_PGID THEN freelist
                       ELSE freelist_free(freelist, txid, n.pgid, 0)
              a == tx_allocate(freed, txmeta[t].pgid, 1)
          IN IF (n.pgid # ZERO_PGID /\ ~freelist_free_ok(freelist, n.pgid, 0))
                \/ ~a.ok
             THEN /\ FailCommit(t, "failed")
                  /\ UNCHANGED <<metas, pages, unsynced, nfail>>
             ELSE /\ pc' = [pc EXCEPT ![t] = "spilled"]
                  /\ freelist' = a.fl
                  /\ txmeta' = [txmeta EXCEPT ![t].pgid = a.hwm]
                  /\ nodes' = (a.pgid :> [n EXCEPT !.pgid = a.pgid, !.spilled = TRUE])
                  /\ txpages' = (a.pgid :> write(n))
                  /\ bucket_header' = [bucket_header EXCEPT !.root = a.pgid]
                  /\ UNCHANGED <<is_rollback, metas, pages, unsynced, root_node,
                                 buckets, nops, result, histvars>>

\* Step 3 (and 4): the old freelist page is freed, a page is allocated and
\* the freelist is written into it.
CommitFreelist(t) ==
  /\ pc[t] = "spilled"
  /\ LET txid == txmeta[t].txid
         old == txmeta[t].freelist
         freed == freelist_free(freelist, txid, old, 0)
         a == tx_allocate(freed, txmeta[t].pgid, 1)
     IN IF ~freelist_free_ok(freelist, old, 0) \/ ~a.ok
        THEN /\ FailCommit(t, "failed")
             /\ UNCHANGED <<metas, pages, unsynced, nfail>>
        ELSE /\ pc' = [pc EXCEPT ![t] = "flwritten"]
             /\ freelist' = a.fl
             /\ txmeta' = [txmeta EXCEPT ![t].pgid = a.hwm, ![t].freelist = a.pgid]
             /\ txpages' = txpages @@ (a.pgid :> MkPage(FREE_LIST_PAGE_FLAG, <<>>,
                                                        a.fl.free \cup AllPending(a.fl)))
             /\ UNCHANGED <<is_rollback, metas, pages, unsynced, nodes, root_node,
                            bucket_header, buckets, nops, result, histvars>>

\* Step 5, first half: every dirty page is written to the file.
CommitWrite(t) ==
  /\ pc[t] = "flwritten"
  /\ pc' = [pc EXCEPT ![t] = "written"]
  /\ pages' = [p \in DOMAIN pages |->
                 IF p \in DOMAIN txpages THEN txpages[p] ELSE pages[p]]
  /\ unsynced' = unsynced \cup DOMAIN txpages
  /\ UNCHANGED <<txmeta, is_rollback, metas, freelist, wsvars, result, histvars>>

\* Step 5, second half: sync().
CommitSync(t) ==
  /\ pc[t] = "written"
  /\ pc' = [pc EXCEPT ![t] = "synced"]
  /\ unsynced' = {}
  /\ UNCHANGED <<txmeta, is_rollback, metas, pages, freelist, wsvars, result, histvars>>

\* The meta may be written once the dirty pages are synced.
MetaWriteReadyUnsynced(t) == pc[t] \in {"written", "synced"}

MetaWriteReady(t) == pc[t] = "synced"

\* The meta of step 6: incremented txid, the new root, freelist page and
\* high-water mark.
NewMeta(t) ==
  MkMeta(txmeta[t].txid + 1, bucket_header, txmeta[t].freelist, txmeta[t].pgid, TRUE)

\* Step 6, first half: the meta is written to slot txid % 2.
CommitMeta(t) ==
  /\ MetaWriteReady(t)
  /\ pc' = [pc EXCEPT ![t] = "metawritten"]
  /\ metas' = [metas EXCEPT ![meta_slot(NewMeta(t).txid)] = NewMeta(t)]
  /\ unsynced' = unsynced \cup {0 - 1 - meta_slot(NewMeta(t).txid)}
  /\ lastcommit' = NewMeta(t)
  /\ UNCHANGED <<txmeta, is_rollback, pages, freelist, wsvars, result, view0,
                 wbase, wend, wexp, nfail>>

\* Step 6 fails: the write of the meta slot is torn, its checksum does not
\* verify (what the slot holds then is of no account), and the commit ends
\* as a failed one.
CommitMetaTorn(t) ==
  /\ MetaWriteReady(t)
  /\ nfail < MaxFails
  /\ nfail' = nfail + 1
  /\ metas' = [metas EXCEPT ![meta_slot(NewMeta(t).txid)] = NoMeta]
  /\ FailCommit(t, "metafailed")
  /\ UNCHANGED <<pages, unsynced>>

\* Step 6, second half, and step 7: sync(), pending sets up to the smallest
\* reader txid (with no reader open, all of them) are released, the
\* transaction is Committed and dropped.
CommitDone(t) ==
  /\ pc[t] = "metawritten"
  /\ unsynced' = {}
  /\ freelist' = freelist_release(freelist,
         IF Readers = {} THEN MaxTxid + 1
         ELSE CHOOSE x \in {txmeta[r].txid : r \in Readers} :
                \A r \in Readers : x <= txmeta[r].txid)
  /\ DropWriter(t, "committed")
  /\ nops' = 0
  /\ result' = <<"commit", 0, 0, "Ok">>
  /\ UNCHANGED <<is_rollback, metas, pages, view0, wbase, wexp, nfail, lastcommit>>

\* An I/O error in steps 3 to 5.
CommitFail(t) ==
  /\ pc[t] \in {"spilled", "flwritten", "written"}
  /\ nfail < MaxFails
  /\ nfail' = nfail + 1
  /\ FailCommit(t, "failed")
  /\ UNCHANGED <<metas, pages, unsynced>>

\* spec.md 4.H: the database is closed and opened again; the freelist is
\* loaded from the authoritative meta's freelist page.
Reopen ==
  /\ \A t \in Threads : pc[t] = "idle"
  /\ freelist' = freelist_read(pages[backend_meta.freelist])
  /\ unsynced' = {}
  /\ wbase' = <<metas, pages, {}, freelist'>>
  /\ UNCHANGED <<pc, txmeta, is_rollback, metas, pages, wsvars, result, view0,
                 wend, wexp, nfail, lastcommit>>

TxNext(t) ==
    \/ RequestRead(t)
    \/ BeginRead(t)
    \/ CloseRead(t)
    \/ RequestWrite(t)
    \/ BeginRW(t)
    \/ \E k \in 0..MaxByte, v \in Bytes : Put(t, k, v)
    \/ \E k \in Bytes : Delete(t, k)
    \/ \E k \in 0..MaxByte : CreateBucket(t, k)
    \/ \E k \in 0..MaxByte : CreateBucketIfNotExists(t, k)
    \/ \E k \in Bytes : DeleteBucket(t, k)
    \/ \E v \in 1..MaxSeq : SetSequence(t, v)
    \/ Rollback(t)
    \/ CommitSpill(t)
    \/ CommitFreelist(t)
    \/ CommitWrite(t)
    \/ CommitSync(t)
    \/ CommitMeta(t)
    \/ CommitMetaTorn(t)
    \/ CommitDone(t)
    \/ CommitFail(t)

Next == (\E t \in Threads : TxNext(t)) \/ Reopen

Spec == Init /\ [][Next]_vars

(* ------------------- one writer, every kind of entry ------------------ *)
\* The bucket calls of a single writer over a database whose root leaf
\* holds, for each key (a long key among them), nothing, a value, an inline
\* bucket or a bucket with a root page of its own, called with every kind
\* of key and value, those at and over the size caps included.

\* The page of the one bucket that has a root page: the first page after
\* the initial file's.
SubRoot == InitMeta.pgid

BucketEntries(k) ==
  {<<>>,
   <<INode(0, 0, k, MaxByte)>>,
   <<INode(BUCKET_LEAF_FLAG, 0, k, BucketValue(ZERO_PGID))>>,
   <<INode(BUCKET_LEAF_FLAG, 0, k, BucketValue(SubRoot))>>}

RECURSIVE BucketLeavesUpTo(_)
BucketLeavesUpTo(k) ==
  IF k = 0 THEN {<<>>}
  ELSE {l \o e : l \in BucketLeavesUpTo(k - 1), e \in BucketEntries(k)}

InitBucket ==
  /\ pc = [t \in Threads |-> "idle"]
  /\ txmeta = [t \in Threads |-> NoMeta]
  /\ is_rollback = [t \in Threads |-> FALSE]
  /\ \E leaf \in {l \o e : l \in BucketLeavesUpTo(MaxByte), e \in BucketEntries(KeyAtCap)} :
       /\ Cardinality({i \in 1..Len(leaf) : leaf[i].value = BucketValue(SubRoot)}) <= 1
       /\ pages = IF \E i \in 1..Len(leaf) : leaf[i].value = BucketValue(SubRoot)
                  THEN [InitPages(leaf) EXCEPT ![SubRoot] = MkPage(LEAF_PAGE_FLAG, <<>>, {})]
                  ELSE InitPages(leaf)
       /\ metas = [i \in {0, 1} |->
                    IF \E j \in 1..Len(leaf) : leaf[j].value = BucketValue(SubRoot)
                    THEN [InitMeta EXCEPT !.pgid = SubRoot + 1]
                    ELSE InitMeta]
  /\ unsynced = {}
  /\ freelist = MkFreelist({}, EmptyPending, {})
  /\ nodes = EmptyFn
  /\ root_node = 0
  /\ bucket_header = InBucket(0, 0)
  /\ buckets = {}
  /\ txpages = EmptyFn
  /\ nops = 0
  /\ result = <<"none", 0, 0, "Ok">>
  /\ view0 = [t \in Threads |-> NoView]
  /\ wbase = <<>>
  /\ wend = "none"
  /\ wexp = NoExp
  /\ nfail = 0
  /\ lastcommit = NoMeta

BucketNames == {0} \cup Keys

BucketNext(t) ==
    \/ RequestWrite(t)
    \/ BeginRW(t)
    \/ \E k \in {0} \cup Keys \cup {KeyOverCap},
          v \in Bytes \cup {ValueAtCap, ValueOverCap} : Put(t, k, v)
    \/ \E k \in Keys : Delete(t, k)
    \/ \E k \in BucketNames : CreateBucket(t, k)
    \/ \E k \in BucketNames : CreateBucketIfNotExists(t, k)
    \/ \E k \in Keys : DeleteBucket(t, k)
    \/ \E v \in 1..MaxSeq : SetSequence(t, v)
    \/ NextSequence(t)
    \/ \E k \in Keys : Bucket(t, k)
    \/ \E fk \in BucketNames : ForEach(t, fk)
    \/ \E fk \in BucketNames : ForEachBucket(t, fk)
    \/ Rollback(t)

\* Thread 1 is the writer; the other threads stay idle.
NextBucket == BucketNext(1)

SpecBucket == InitBucket /\ [][NextBucket]_vars

(* ---------------------- the freelist on its own ---------------------- *)
MaxFlOps == 2
MaxRun == 2

\* The database is open and idle; its freelist is the one loaded from a
\* freelist page.
InitFreelist ==
  /\ pc = [t \in Threads |-> "idle"]
  /\ txmeta = [t \in Threads |-> NoMeta]
  /\ is_rollback = [t \in Threads |-> FALSE]
  /\ metas = [i \in {0, 1} |-> InitMeta]
  /\ pages = InitPages(<<>>)
  /\ unsynced = {}
  /\ \E ids \in SUBSET (2..(MaxPgid - 1)) :
       freelist = freelist_read(MkPage(FREE_LIST_PAGE_FLAG, <<>>, ids))
  /\ nodes = EmptyFn
  /\ root_node = 0
  /\ bucket_header = InBucket(0, 0)
  /\ buckets = {}
  /\ txpages = EmptyFn
  /\ nops = 0
  /\ result = <<"none", 0, 0, "Ok">>
  /\ view0 = [t \in Threads |-> NoView]
  /\ wbase = <<>>
  /\ wend = "none"
  /\ wexp = NoExp
  /\ nfail = 0
  /\ lastcommit = NoMeta

\* A call on the freelist: the call and what it returned are recorded.
FreelistCall(call, res, fl) ==
  /\ nops < MaxFlOps
  /\ nops' = nops + 1
  /\ result' = Append(call, res)
  /\ freelist' = fl
  /\ UNCHANGED <<pc, txmeta, is_rollback, metas, pages, unsynced, nodes,
                 root_node, bucket_header, buckets, txpages, histvars>>

\* allocate(txid, n); the id it returns (0 for none) is the call's value.
FlAllocate(n) ==
  LET r == freelist_allocate(freelist, n)
  IN FreelistCall(<<"allocate", n, r.pgid>>, "Ok", r.fl)

\* free(txid, page) of the page id with that overflow; its assertions
\* fail before anything is changed.
FlFree(txid, id, overflow) ==
  IF freelist_free_ok(freelist, id, overflow)
  THEN FreelistCall(<<"free", id, overflow>>, "Ok",
                    freelist_free(freelist, txid, id, overflow))
  ELSE FreelistCall(<<"free", id, overflow>>, "panic", freelist)

FlRelease(txid) ==
  FreelistCall(<<"release", txid, 0>>, "Ok", freelist_release(freelist, txid))

FlRollback(txid) ==
  FreelistCall(<<"rollback", txid, 0>>, "Ok", freelist_rollback(freelist, txid))

\* The transaction ids the freelist is called with.
WriterTxIds == 1..MaxTxid

NextFreelist ==
    \/ \E n \in 1..MaxRun : FlAllocate(n)
    \/ \E txid \in WriterTxIds, id \in PgIds, overflow \in 0..(MaxRun - 1) :
         FlFree(txid, id, overflow)
    \/ \E txid \in WriterTxIds : FlRelease(txid)
    \/ \E txid \in WriterTxIds : FlRollback(txid)

SpecFreelist == InitFreelist /\ [][NextFreelist]_vars

(* ----------------------- node sizes and split ----------------------- *)
MIN_KEYS_PER_PAGE == 2

\* common/tree.rs BRANCH_PAGE_ELEMENT_SIZE: key offset and key size, four
\* bytes each, and the child's page id, eight.
BRANCH_PAGE_ELEMENT_SIZE == 16

\* node.rs NodeW::page_element_size.
page_element_size(n) ==
  IF n.is_leaf THEN LEAF_PAGE_ELEMENT_SIZE ELSE BRANCH_PAGE_ELEMENT_SIZE

\* The size the loops of size, size_less_than and split_index add for
\* element i.
elsize(n, i) == page_element_size(n) + len(n.inodes[i].key) + len(n.inodes[i].value)

\* The size those loops have reached when they have added the first i
\* elements.
size_upto(n, i) ==
  LET RECURSIVE sum(_)
      sum(j) == IF j = 0 THEN PAGE_HEADER_SIZE ELSE sum(j - 1) + elsize(n, j)
  IN sum(i)

\* node.rs NodeW::size.
size(n) == size_upto(n, Len(n.inodes))

\* node.rs NodeW::size_less_than: false as soon as the running size is
\* greater than v, true when the loop ends.
size_less_than(n, v) == \A i \in 1..Len(n.inodes) : ~(size_upto(n, i) > v)

\* A split index that stops at the first element over the threshold,
\* however few elements precede it.
split_index_without_min(n, threshold) ==
  LET last == Len(n.inodes) - MIN_KEYS_PER_PAGE
      RECURSIVE walk_from(_, _)
      walk_from(idx, sz) ==
        IF sz + elsize(n, idx + 1) > threshold
        THEN [index |-> idx, size |-> sz]
        ELSE IF idx + 1 >= last
        THEN [index |-> idx, size |-> sz + elsize(n, idx + 1)]
        ELSE walk_from(idx + 1, sz + elsize(n, idx + 1))
  IN IF Len(n.inodes) <= MIN_KEYS_PER_PAGE
     THEN [index |-> 0, size |-> PAGE_HEADER_SIZE]
     ELSE walk_from(0, PAGE_HEADER_SIZE)

\* node.rs NodeW::split_index: index and size start at 0 and the header
\* size and are returned at once for a node of at most MIN_KEYS_PER_PAGE
\* elements; otherwise the loop goes over all but the last
\* MIN_KEYS_PER_PAGE elements, sets index (0-based) to the element's,
\* breaks when index >= MIN_KEYS_PER_PAGE and the element would take the
\* size over the threshold, and adds the element's size otherwise.
split_index(n, threshold) ==
  LET last == Len(n.inodes) - MIN_KEYS_PER_PAGE
      RECURSIVE walk_from(_, _)
      walk_from(idx, sz) ==
        IF idx >= MIN_KEYS_PER_PAGE /\ sz + elsize(n, idx + 1) > threshold
        THEN [index |-> idx, size |-> sz]
        ELSE IF idx + 1 >= last
        THEN [index |-> idx, size |-> sz + elsize(n, idx + 1)]
        ELSE walk_from(idx + 1, sz + elsize(n, idx + 1))
  IN IF Len(n.inodes) <= MIN_KEYS_PER_PAGE
     THEN [index |-> 0, size |-> PAGE_HEADER_SIZE]
     ELSE walk_from(0, PAGE_HEADER_SIZE)

\* bucket.rs DEFAULT_FILL_PERCENT, 0.5, of a page size.
fill_threshold(page_size) == page_size \div 2

\* spec.md 4.D split, one step: a node of more than 2 * MIN_KEYS_PER_PAGE
\* elements whose size exceeds the page size is cut at its split index,
\* the elements from there on becoming a new sibling; any other node is
\* left whole.  The two element sequences, the second empty for no split.
split_two(n, page_size) ==
  IF Len(n.inodes) <= 2 * MIN_KEYS_PER_PAGE \/ ~(size(n) > page_size)
  THEN <<n.inodes, <<>>>>
  ELSE LET i == split_index(n, fill_threshold(page_size)).index
       IN <<SubSeq(n.inodes, 1, i), SubSeq(n.inodes, i + 1, Len(n.inodes))>>

\* node.rs NodeMut::split: split_two on the node, then on the sibling it
\* returned, until it returns none; the element sequences of the nodes.
RECURSIVE split(_, _)
split(n, page_size) ==
  LET ab == split_two(n, page_size)
  IN IF ab[2] = <<>> THEN <<ab[1]>>
     ELSE <<ab[1]>> \o split([n EXCEPT !.inodes = ab[2]], page_size)

(* ------------------------ a node on its own --------------------------- *)
MaxElems == 5
MaxNodeOps == 2

\* The page the node is read from and its keys.
NodePg == InitMeta.root.root

\* The elements of a page in key order.  A leaf page holds for its i-th
\* key none, one with a short value or one with a long value; a branch
\* page none or one pointing at a page.
RECURSIVE LeafSeqs(_)
LeafSeqs(i) ==
  IF i = 0 THEN {<<>>}
  ELSE {l \o e : l \in LeafSeqs(i - 1),
                  e \in {<<>>, <<INode(0, 0, ExtraKey(i), MaxByte)>>,
                         <<INode(0, 0, ExtraKey(i), BigValue)>>}}

RECURSIVE BranchSeqs(_)
BranchSeqs(i) ==
  IF i = 0 THEN {<<>>}
  ELSE {l \o e : l \in BranchSeqs(i - 1),
                  e \in {<<>>, <<INode(0, NodePg + 1, ExtraKey(i), 0)>>}}

\* A writer is open and has read one node in from its page.
InitNode ==
  /\ pc = [t \in Threads |-> IF t = 1 THEN "write" ELSE "idle"]
  /\ txmeta = [t \in Threads |-> IF t = 1 THEN InitMeta ELSE NoMeta]
  /\ is_rollback = [t \in Threads |-> FALSE]
  /\ metas = [i \in {0, 1} |-> InitMeta]
  /\ \E page \in {MkPage(LEAF_PAGE_FLAG, s, {}) : s \in LeafSeqs(MaxElems)}
                   \cup {MkPage(BRANCH_PAGE_FLAG, s, {}) : s \in BranchSeqs(MaxElems)} :
       /\ pages = [InitPages(<<>>) EXCEPT ![NodePg] = page]
       /\ nodes = (NodePg :> read_in(page, NodePg))
  /\ unsynced = {}
  /\ freelist = MkFreelist({}, EmptyPending, {})
  /\ root_node = 0
  /\ bucket_header = InitMeta.root
  /\ buckets = {}
  /\ txpages = EmptyFn
  /\ nops = 0
  /\ result = <<"none", 0, 0, "Ok">>
  /\ view0 = [t \in Threads |-> NoView]
  /\ wbase = <<>>
  /\ wend = "active"
  /\ wexp = NoExp
  /\ nfail = 0
  /\ lastcommit = NoMeta

\* A call on the node: the call and its result are recorded, the node is
\* what the call left.
NodeCall(call, res, n) ==
  /\ nops < MaxNodeOps
  /\ nops' = nops + 1
  /\ result' = Append(call, res)
  /\ nodes' = [nodes EXCEPT ![NodePg] = n]
  /\ UNCHANGED <<pc, txmeta, is_rollback, dbvars, root_node, bucket_header,
                 buckets, txpages, histvars>>

\* put(key, key, value, 0, 0) on the node; its assertions fail before
\* anything is changed.
NodePut(k, v) ==
  IF put_panics(txmeta[1].pgid, k, k, ZERO_PGID)
  THEN NodeCall(<<"node_put", k, v>>, "panic", nodes[NodePg])
  ELSE NodeCall(<<"node_put", k, v>>, "Ok", put(nodes[NodePg], k, k, v, ZERO_PGID, 0))

NodeDel(k) == NodeCall(<<"node_del", k, 0>>, "Ok", del(nodes[NodePg], k))

\* inlineable on a bucket whose root node is the node: the kind of the
\* page it was read from is recorded with the call.
NodeInlineable ==
  NodeCall(<<"inlineable", 0, is_leaf(pages[NodePg])>>,
           inlineable(NodePg, nodes, DEFAULT_PAGE_SIZE), nodes[NodePg])

\* node.rs NodeMut::free: nothing for a node without a page; otherwise the
\* node's page goes to freelist.free with the transaction's id (spec.md
\* 4.B free, which asserts that the id is at least 2 and not yet in the
\* cache).  The node keeps its page id.  The page id and whether it was in
\* the cache are recorded with the call.
NodeFree ==
  LET n == nodes[NodePg]
      call == <<"node_free", n.pgid, n.pgid \in freelist.cache>>
  IN /\ nops < MaxNodeOps
     /\ nops' = nops + 1
     /\ IF n.pgid = ZERO_PGID
        THEN result' = Append(call, "Ok") /\ freelist' = freelist
        ELSE IF freelist_free_ok(freelist, n.pgid, 0)
        THEN /\ result' = Append(call, "Ok")
             /\ freelist' = freelist_free(freelist, txmeta[1].txid, n.pgid, 0)
        ELSE result' = Append(call, "panic") /\ freelist' = freelist
     /\ UNCHANGED <<pc, txmeta, is_rollback, metas, pages, unsynced, nodes,
                    root_node, bucket_header, buckets, txpages, histvars>>

NextNode ==
    \/ \E k \in {0} \cup {ExtraKey(i) : i \in 1..MaxElems},
          v \in {MaxByte, BigValue} : NodePut(k, v)
    \/ \E k \in {ExtraKey(i) : i \in 1..MaxElems} : NodeDel(k)
    \/ NodeInlineable
    \/ NodeFree

SpecNode == InitNode /\ [][NextNode]_vars

(* ------------------- size and split of a node ------------------------ *)
MaxSplitElems == 7

\* A writer is open and has read one node in from its page, as a leaf
\* (the page says) or as read_in leaves it.
InitSplit ==
  /\ pc = [t \in Threads |-> IF t = 1 THEN "write" ELSE "idle"]
  /\ txmeta = [t \in Threads |-> IF t = 1 THEN InitMeta ELSE NoMeta]
  /\ is_rollback = [t \in Threads |-> FALSE]
  /\ metas = [i \in {0, 1} |-> InitMeta]
  /\ \E page \in {MkPage(LEAF_PAGE_FLAG, s, {}) : s \in LeafSeqs(MaxSplitElems)} :
       /\ pages = [InitPages(<<>>) EXCEPT ![NodePg] = page]
       /\ nodes = (NodePg :> read_in(page, NodePg))
  /\ unsynced = {}
  /\ freelist = MkFreelist({}, EmptyPending, {})
  /\ root_node = 0
  /\ bucket_header = InitMeta.root
  /\ buckets = {}
  /\ txpages = EmptyFn
  /\ nops = 0
  /\ result = <<"none", 0, 0, "Ok">>
  /\ view0 = [t \in Threads |-> NoView]
  /\ wbase = <<>>
  /\ wend = "active"
  /\ wexp = NoExp
  /\ nfail = 0
  /\ lastcommit = NoMeta

\* split(page_size) on the node: the element sequences of the nodes it
\* returns are the call's value; the node keeps the first of them.
NodeSplit ==
  LET parts == split(nodes[NodePg], DEFAULT_PAGE_SIZE)
  IN NodeCall(<<"node_split", Len(nodes[NodePg].inodes), parts>>, "Ok",
              [nodes[NodePg] EXCEPT !.inodes = parts[1]])

\* size_less_than(limit) on the node: size() is the call's value, what
\* size_less_than returns its result.
NodeSizeLessThan(limit) ==
  NodeCall(<<"size_less_than", limit, size(nodes[NodePg])>>,
           size_less_than(nodes[NodePg], limit), nodes[NodePg])

NextSplit ==
    \/ NodeSplit
    \/ \E limit \in {size(nodes[NodePg]) - 1, size(nodes[NodePg]),
                       size(nodes[NodePg]) + 1, DEFAULT_PAGE_SIZE} :
         NodeSizeLessThan(limit)

SpecSplit == InitSplit /\ [][NextSplit]_vars

(* ------------------------- a tree of nodes --------------------------- *)
MaxLeaves == 3
MaxLeafElems == 3
MaxTreePgid == 16

TreePgIds == 0..(MaxTreePgid - 1)
TreeRoot == InitMeta.root.root
LeafPg(j) == TreeRoot + j

\* node.rs NodeW::min_keys.
min_keys(n) == IF n.is_leaf THEN 1 ELSE 2

\* node.rs NodeMut::child_index: where the child's key is found among the
\* parent's elements, or would be inserted (1-based).
child_index(parent, child) ==
  IF search_exact(parent.inodes, child.key) # 0
  THEN search_exact(parent.inodes, child.key)
  ELSE lower_bound(parent.inodes, child.key)

\* node.rs NodeMut::prev_sibling and next_sibling: the page id of the
\* parent's element before and after the child's, 0 for none.
prev_sibling(parent, child) ==
  IF child_index(parent, child) <= 1 THEN 0
  ELSE parent.inodes[child_index(parent, child) - 1].pgid

next_sibling(parent, child) ==
  IF child_index(parent, child) >= Len(parent.inodes) THEN 0
  ELSE parent.inodes[child_index(parent, child) + 1].pgid

\* A function without one element of its domain.
Without(f, x) == [y \in DOMAIN f \ {x} |-> f[y]]

\* spec.md 4.D rebalance, "under threshold", with every node counted as
\* having one key to spare.
under_threshold_leaf_keys(n, page_size) ==
  size(n) < page_size \div 4 \/ Len(n.inodes) < 1

\* spec.md 4.D rebalance, "under threshold".
under_threshold(n, page_size) ==
  size(n) < page_size \div 4 \/ Len(n.inodes) < min_keys(n)

\* spec.md 4.D rebalance of the node p in a tree of root r whose nodes
\* below the root are the root's children.  st holds the nodes and the
\* freelist.  A node that is not unbalanced is left alone; an unbalanced
\* node under the threshold gives its elements to its left sibling, or
\* takes those of its right sibling when it has no left one, the parent
\* loses the element of the node that went and the page of that node is
\* freed; the parent is rebalanced in turn.  A root under the threshold
\* with a single branch child takes the child's elements.
RECURSIVE rebalance_node(_, _, _, _, _)
rebalance_node(pgs, st, r, txid, p) ==
  IF p \notin DOMAIN st.nodes THEN st
  ELSE IF ~st.nodes[p].unbalanced THEN st
  ELSE
    LET n == st.nodes[p]
        cleared == [st EXCEPT !.nodes[p].unbalanced = FALSE]
    IN IF ~under_threshold(n, DEFAULT_PAGE_SIZE) THEN cleared
       ELSE IF p = r
       THEN IF n.is_leaf \/ Len(n.inodes) # 1 THEN cleared
            ELSE LET cpg == n.inodes[1].pgid
                     child == node(pgs, st.nodes, cpg)[cpg]
                 IN IF child.is_leaf THEN cleared
                    ELSE [nodes |-> [Without(cleared.nodes, cpg) EXCEPT
                                       ![r].is_leaf = child.is_leaf,
                                       ![r].inodes = child.inodes],
                          fl |-> freelist_free(st.fl, txid, child.pgid, 0)]
       ELSE
         LET nds1 == node(pgs, cleared.nodes, r)
             parent == nds1[r]
             left == prev_sibling(parent, n)
             right == next_sibling(parent, n)
         IN IF left # 0
            THEN LET nds2 == node(pgs, nds1, left)
                     merged == [nds2 EXCEPT ![left].inodes = @ \o n.inodes,
                                            ![r] = del(parent, n.key)]
                 IN rebalance_node(pgs,
                      [nodes |-> Without(merged, p),
                       fl |-> freelist_free(st.fl, txid, n.pgid, 0)],
                      r, txid, r)
            ELSE IF right # 0
            THEN LET nds2 == node(pgs, nds1, right)
                     target == nds2[right]
                     merged == [nds2 EXCEPT ![p].inodes = @ \o target.inodes,
                                            ![r] = del(parent, target.key)]
                 IN rebalance_node(pgs,
                      [nodes |-> Without(merged, right),
                       fl |-> freelist_free(st.fl, txid, target.pgid, 0)],
                      r, txid, r)
            ELSE cleared

\* spec.md 4.D spill of one node of the parts a split gave: a run of fresh
\* pages is allocated, the node is written into the first (node.rs write)
\* and, below the root, the parent's element of old_key is put again with
\* the node's first key and its new page id (node.rs put).  st holds the
\* nodes, the freelist, the high-water mark, the dirty pages, what was
\* written so far and the page of the root.  A node takes one page and
\* its overflow.
spill_part(st, n, inodes, old_key, r, is_root) ==
  LET part == [n EXCEPT !.inodes = inodes]
      a == tx_allocate(st.fl, st.hwm, size(part) \div DEFAULT_PAGE_SIZE + 1)
      key == IF inodes = <<>> THEN 0 ELSE inodes[1].key
  IN [nodes |-> IF is_root THEN st.nodes
                ELSE [st.nodes EXCEPT ![r] = put(@, old_key, key, 0, a.pgid, 0)],
      fl |-> a.fl,
      hwm |-> a.hwm,
      txpages |-> st.txpages @@ (a.pgid :> write(part)),
      written |-> Append(st.written, [pgid |-> a.pgid, key |-> key]),
      root |-> st.root,
      ok |-> st.ok /\ a.ok
               /\ (is_root \/ ~put_panics(a.hwm, old_key, key, a.pgid))]

RECURSIVE spill_parts(_, _, _, _, _, _)
spill_parts(st, n, parts, j, r, is_root) ==
  IF j > Len(parts) THEN st
  ELSE spill_parts(
         spill_part(st, n, parts[j],
                    IF j = 1 THEN n.key
                    ELSE IF parts[j] = <<>> THEN 0 ELSE parts[j][1].key,
                    r, is_root),
         n, parts, j + 1, r, is_root)

\* spec.md 4.D spill of the node p: split, the old page freed, then every
\* part in turn; a root that was split gets a new root above its parts.
\* The node is left with its first part, the page of that part and the
\* key of its first element.
spill_node(pgs, nds, fl, hwm, txp, r, txid, p) ==
  LET nds1 == IF p = r THEN nds ELSE node(pgs, nds, r)
      n == nds1[p]
      parts == split(n, DEFAULT_PAGE_SIZE)
      freed == IF n.pgid = ZERO_PGID THEN fl ELSE freelist_free(fl, txid, n.pgid, 0)
      st0 == [nodes |-> nds1, fl |-> freed, hwm |-> hwm, txpages |-> txp,
              written |-> <<>>, root |-> r,
              ok |-> n.pgid = ZERO_PGID \/ freelist_free_ok(fl, n.pgid, 0)]
      st1 == spill_parts(st0, n, parts, 1, r, p = r)
      first == st1.written[1]
      st2 == [st1 EXCEPT !.nodes[p].inodes = parts[1],
                         !.nodes[p].pgid = first.pgid,
                         !.nodes[p].key = first.key,
                         !.nodes[p].spilled = TRUE]
  IN IF p # r \/ Len(parts) = 1
     THEN [st2 EXCEPT !.root = IF p = r THEN first.pgid ELSE r]
     ELSE LET top == [n EXCEPT !.is_leaf = FALSE, !.pgid = ZERO_PGID,
                               !.inodes = [j \in 1..Len(parts) |->
                                  INode(0, st1.written[j].pgid, st1.written[j].key, 0)]]
              st3 == spill_part([st2 EXCEPT !.written = <<>>], top, top.inodes,
                                0, r, TRUE)
          IN [st3 EXCEPT !.root = st3.written[1].pgid,
                         !.written = st1.written \o st3.written]

\* The leaves of a tree of one branch page: leaf j holds two to
\* MaxLeafElems elements of one-byte or of long keys, no more than fill a
\* page, and the leaves of one-byte keys come first.
TreeKey(j, i, long) ==
  IF long THEN ExtraKey(BIG_KEY_SIZE + j * (MaxLeafElems + 1) + i)
  ELSE ExtraKey(j * (MaxLeafElems + 1) + i)

RECURSIVE TreeLeavesUpTo(_)
TreeLeavesUpTo(l) ==
  IF l = 0 THEN {<<>>}
  ELSE {s \o <<c>> :
          s \in TreeLeavesUpTo(l - 1),
          c \in {x \in {[long |-> lg,
                         inodes |-> [i \in 1..n |-> INode(0, 0, TreeKey(l, i, lg), MaxByte)]] :
                          n \in 2..MaxLeafElems, lg \in BOOLEAN} :
                  size(read_in(MkPage(LEAF_PAGE_FLAG, x.inodes, {}), LeafPg(l)))
                    <= DEFAULT_PAGE_SIZE}}

TreePages(ls) ==
  [p \in TreePgIds |->
     IF p < 2 THEN MkPage(META_PAGE_FLAG, <<>>, {})
     ELSE IF p = 2 THEN MkPage(FREE_LIST_PAGE_FLAG, <<>>, {})
     ELSE IF p = TreeRoot
     THEN MkPage(BRANCH_PAGE_FLAG,
                 [j \in 1..Len(ls) |-> INode(0, LeafPg(j), ls[j].inodes[1].key, 0)],
                 {})
     ELSE IF p - TreeRoot \in 1..Len(ls)
     THEN MkPage(LEAF_PAGE_FLAG, ls[p - TreeRoot].inodes, {})
     ELSE MkPage(0, <<>>, {})]

\* A writer is open on a database whose root bucket is such a tree.
InitTree ==
  /\ pc = [t \in Threads |-> IF t = 1 THEN "write" ELSE "idle"]
  /\ is_rollback = [t \in Threads |-> FALSE]
  /\ \E ls \in UNION {TreeLeavesUpTo(l) : l \in 2..MaxLeaves} :
       /\ \A j \in 1..(Len(ls) - 1) : ls[j].long => ls[j + 1].long
       /\ pages = TreePages(ls)
       /\ metas = [i \in {0, 1} |->
                    MkMeta(0, InBucket(TreeRoot, 0), 2, TreeRoot + Len(ls) + 1, TRUE)]
       /\ txmeta = [t \in Threads |-> IF t = 1 THEN metas[0] ELSE NoMeta]
  /\ unsynced = {}
  /\ freelist = MkFreelist({}, EmptyPending, {})
  /\ nodes = EmptyFn
  /\ root_node = 0
  /\ bucket_header = InBucket(TreeRoot, 0)
  /\ buckets = {}
  /\ txpages = EmptyFn
  /\ nops = 0
  /\ result = <<"none", 0, 0, "Ok">>
  /\ view0 = [t \in Threads |-> NoView]
  /\ wbase = <<>>
  /\ wend = "active"
  /\ wexp = NoExp
  /\ nfail = 0
  /\ lastcommit = NoMeta

\* Commit, step 1, for one touched node.
TreeRebalance(p) ==
  /\ pc[1] \in {"write", "rebalancing"}
  /\ p \in DOMAIN nodes
  /\ nodes[p].unbalanced
  /\ LET st == rebalance_node(pages, [nodes |-> nodes, fl |-> freelist],
                              bucket_header.root, txmeta[1].txid, p)
     IN /\ nodes' = st.nodes
        /\ freelist' = st.fl
  /\ pc' = [pc EXCEPT ![1] = "rebalancing"]
  /\ result' = <<"rebalance", p, 0, "Ok">>
  /\ UNCHANGED <<txmeta, is_rollback, metas, pages, unsynced, root_node,
                 bucket_header, buckets, txpages, nops, histvars>>

\* Any dirty node may be spilled next.
SpillReadyInAnyOrder(p) == TRUE

\* Children first: a node is spilled when its dirty children have been.
SpillReady(p) ==
  \A q \in DOMAIN nodes :
    nodes[q].spilled
      \/ \A i \in 1..Len(nodes[p].inodes) : nodes[p].inodes[i].pgid # nodes[q].pgid

\* Commit, step 2, for one dirty node; the step is recorded with the page
\* the node had and the pages and first keys of what was written.
TreeSpill(p) ==
  /\ pc[1] \in {"write", "rebalancing", "spilling"}
  /\ p \in DOMAIN nodes
  /\ \A q \in DOMAIN nodes : ~nodes[q].unbalanced
  /\ ~nodes[p].spilled
  /\ SpillReady(p)
  /\ \E st \in {spill_node(pages, nodes, freelist, txmeta[1].pgid, txpages,
                            bucket_header.root, txmeta[1].txid, p)} :
        /\ st.ok
        /\ nodes' = st.nodes
        /\ freelist' = st.fl
        /\ txmeta' = [txmeta EXCEPT ![1].pgid = st.hwm]
        /\ txpages' = st.txpages
        /\ bucket_header' = [bucket_header EXCEPT !.root = st.root]
        /\ result' = <<"spill", p, [old |-> nodes[p].pgid, written |-> st.written],
                       "Ok">>
  /\ pc' = [pc EXCEPT ![1] = "spilling"]
  /\ UNCHANGED <<is_rollback, metas, pages, unsynced, root_node, buckets,
                 nops, histvars>>

\* Steps 1 and 2 are done when every dirty node is spilled.
TreeSpilled ==
  /\ pc[1] \in {"write", "rebalancing", "spilling"}
  /\ \A q \in DOMAIN nodes : ~nodes[q].unbalanced /\ nodes[q].spilled
  /\ pc' = [pc EXCEPT ![1] = "spilled"]
  /\ UNCHANGED <<txmeta, is_rollback, dbvars, wsvars, result, histvars>>

\* The keys put and deleted: the first two of every leaf.
TreeOpKeys ==
  {TreeKey(j, i, lg) : j \in 1..MaxLeaves, i \in 1..2, lg \in BOOLEAN}

NextTree ==
    \/ \E k \in TreeOpKeys : Put(1, k, MaxByte)
    \/ \E k \in TreeOpKeys : Delete(1, k)
    \/ \E p \in TreePgIds : TreeRebalance(p)
    \/ \E p \in TreePgIds : TreeSpill(p)
    \/ TreeSpilled
    \/ CommitFreelist(1)
    \/ CommitWrite(1)
    \/ CommitSync(1)
    \/ CommitMeta(1)
    \/ CommitDone(1)

SpecTree == InitTree /\ [][NextTree]_vars

(* --------------------- the lock and its waiters ---------------------- *)
\* Transactions that begin, set the sequence, and commit or roll back.
LockNext(t) ==
    \/ RequestRead(t)
    \/ BeginRead(t)
    \/ CloseRead(t)
    \/ RequestWrite(t)
    \/ BeginRW(t)
    \/ \E v \in 1..MaxSeq : SetSequence(t, v)
    \/ Rollback(t)
    \/ CommitSpill(t)
    \/ CommitFreelist(t)
    \/ CommitWrite(t)
    \/ CommitSync(t)
    \/ CommitMeta(t)
    \/ CommitDone(t)

NextLock == \E t \in Threads : LockNext(t)

\* A writer that is open goes on to commit or roll back.
WriterEnds(t) ==
    \/ Rollback(t)
    \/ CommitSpill(t)
    \/ CommitFreelist(t)
    \/ CommitWrite(t)
    \/ CommitSync(t)
    \/ CommitMeta(t)
    \/ CommitDone(t)

\* Every writer commits or rolls back in the end, and the lock
\* (parking_lot's RwLock, which lets no waiter starve) is granted to a
\* waiter that can have it again and again.  A reader may stay open.
FairLock ==
  \A t \in Threads :
    /\ WF_vars(WriterEnds(t))
    /\ SF_vars(BeginRW(t))
    /\ SF_vars(BeginRead(t))

SpecLock == Init /\ [][NextLock]_vars /\ FairLock

(* --------------------------- page headers ---------------------------- *)
MaxFlags == 31

\* CoerciblePage::page_flag of the four page types (tree.rs, meta.rs and
\* freelist.rs): the flag of spec.md 3 for each.
PageTypes == {"branch", "leaf", "meta", "freelist"}
page_flag(type) ==
  IF type = "branch" THEN BRANCH_PAGE_FLAG
  ELSE IF type = "leaf" THEN LEAF_PAGE_FLAG
  ELSE IF type = "meta" THEN META_PAGE_FLAG
  ELSE FREE_LIST_PAGE_FLAG

\* A coerce_ref that tests the type's bit instead of comparing the flags.
coerce_ref_by_bit(p, type) == HasFlag(p.flags, page_flag(type))

\* common/page.rs CoerciblePage::coerce_ref: Some when the page's flags
\* equal the type's flag, None otherwise.
coerce_ref(p, type) == p.flags = page_flag(type)

\* common/page.rs CoerciblePage::mut_into: set_flag, then the cast.
mut_into(p, type) == [p EXCEPT !.flags = page_flag(type)]

\* common/page.rs Page::fast_check: both assertions pass.
fast_check(p, id) ==
  /\ p.id = id
  /\ \/ p.flags = BRANCH_PAGE_FLAG
     \/ p.flags = LEAF_PAGE_FLAG
     \/ p.flags = META_PAGE_FLAG
     \/ p.flags = FREE_LIST_PAGE_FLAG

\* A mapped page of any id and any flags word up to MaxFlags; no
\* transaction is open.
InitPage ==
  /\ pc = [t \in Threads |-> "idle"]
  /\ txmeta = [t \in Threads |-> NoMeta]
  /\ is_rollback = [t \in Threads |-> FALSE]
  /\ metas = [i \in {0, 1} |-> InitMeta]
  /\ \E id \in PgIds, flags \in 0..MaxFlags : pages = (NodePg :> [id |-> id, flags |-> flags])
  /\ unsynced = {}
  /\ freelist = MkFreelist({}, EmptyPending, {})
  /\ nodes = EmptyFn
  /\ root_node = 0
  /\ bucket_header = InBucket(0, 0)
  /\ buckets = {}
  /\ txpages = EmptyFn
  /\ nops = 0
  /\ result = <<"none", 0, 0, "Ok">>
  /\ view0 = [t \in Threads |-> NoView]
  /\ wbase = <<>>
  /\ wend = "none"
  /\ wexp = NoExp
  /\ nfail = 0
  /\ lastcommit = NoMeta

ThePage == pages[NodePg]

\* A call on the page: the call, the flags it found and its result are
\* recorded, the page is what the call left.
PageCall(name, arg, res, p) ==
  /\ result' = <<name, arg, ThePage.flags, res>>
  /\ pages' = (NodePg :> p)
  /\ UNCHANGED <<pc, txmeta, is_rollback, metas, unsynced, freelist, wsvars,
                 histvars>>

PageCoerceRef(type) ==
  PageCall("coerce_ref", type, IF coerce_ref(ThePage, type) THEN "Some" ELSE "None",
           ThePage)

PageMutInto(type) == PageCall("mut_into", type, "Ok", mut_into(ThePage, type))

PageFastCheck(id) ==
  PageCall("fast_check", id, IF fast_check(ThePage, id) THEN "Ok" ELSE "panic",
           ThePage)

NextPage ==
    \/ \E type \in PageTypes : PageCoerceRef(type)
    \/ \E type \in PageTypes : PageMutInto(type)
    \/ \E id \in PgIds : PageFastCheck(id)

SpecPage == InitPage /\ [][NextPage]_vars

(* ---------------------- page info and size --------------------------- *)
\* common/page.rs Page::page_type.
page_type(p) ==
  IF is_branch(p) THEN "branch"
  ELSE IF is_leaf(p) THEN "leaf"
  ELSE IF is_meta(p) THEN "meta"
  ELSE IF is_free_list(p) THEN "freelist"
  ELSE "unknown"

\* A page info that is none only above the high-water mark.
api_page_above_mark(pgs, fl, m, id) ==
  IF id > m.pgid THEN "none"
  ELSE IF freelist_freed(fl, id) THEN "free"
  ELSE page_type(pgs[id])

\* tx.rs TxIAPI::api_page, the type of the page info it returns: none for
\* an id at or above the high-water mark of the transaction's meta, "free"
\* for a page the pager reports free (one in the freelist), the page's type
\* otherwise.
api_page(pgs, fl, m, id) ==
  IF id >= m.pgid THEN "none"
  ELSE IF freelist_freed(fl, id) THEN "free"
  ELSE page_type(pgs[id])

\* tx.rs TxIAPI::api_size.
api_size(m) == m.pgid * DEFAULT_PAGE_SIZE

OpenTx(t) == pc[t] \in {"read", "write"}

\* Tx.page(id) and Tx.size() on an open transaction: the call, the thread
\* and what was returned are recorded.
TxPage(t, id) ==
  /\ OpenTx(t)
  /\ result' = <<"page", id, t, api_page(pages, freelist, txmeta[t], id)>>
  /\ UNCHANGED <<pc, txmeta, is_rollback, dbvars, wsvars, histvars>>

TxSize(t) ==
  /\ OpenTx(t)
  /\ result' = <<"size", 0, t, api_size(txmeta[t])>>
  /\ UNCHANGED <<pc, txmeta, is_rollback, dbvars, wsvars, histvars>>

NextInfo ==
  \E t \in Threads :
    \/ LockNext(t)
    \/ \E id \in 0..MaxPgid : TxPage(t, id)
    \/ TxSize(t)

SpecInfo == Init /\ [][NextInfo]_vars

C2_OnlySecondWriterWaits ==
  \A t \in Threads :
    /\ pc[t] = "waitR" => CanAcquireRead
    /\ pc[t] = "waitW" => (CanAcquireWrite \/ Writers # {})

\* C3: at most one writer transaction is Active or Committing.
C3_WriterMutualExclusion == Cardinality(Writers) <= 1

\* C3's case: a writer is active and a second begin_rw has not returned.
C3_Witness ==
  \E t \in Writers, u \in Threads : u # t /\ pc[u] = "waitW"

\* C4: after a successful commit, every key the writer's successful calls
\* put or deleted reads as the last value put, none (0) when deleted.
C4_DurableCommit ==
  wend = "committed" =>
    \A k \in Bytes :
      wexp[k] # Untouched =>
        api_get(pages, EmptyFn, backend_meta.root.root, k) = wexp[k]

\* C5: after the rollback of a writer, the metas, the freelist and every
\* page of the file are what they were when the writer began, and nothing
\* waits for a sync.
C5_RollbackPurity ==
  wend = "rolledback" => <<metas, pages, unsynced, freelist>> = wbase

\* C5's case: a writer whose last call was a successful put has rolled back.
C5_Witness ==
  wend = "rolledback" /\ result[1] = "put" /\ result[4] = "Ok" /\ nops = MaxOps

SnapshotPages(m) == {m.root.root, m.freelist}

OwnersOf(p) ==
  (IF p = backend_meta.root.root THEN {"tree"} ELSE {})
  \cup (IF p = backend_meta.freelist THEN {"freelist page"} ELSE {})
  \cup (IF p \in freelist.free THEN {"free"} ELSE {})
  \cup {<<"pending", x>> : x \in {y \in TxIds : p \in freelist.pending[y]}}

C10_PageOwnershipPartition ==
  Writers = {} =>
    \A p \in 2..(backend_meta.pgid - 1) : Cardinality(OwnersOf(p)) = 1

\* C11: writers are totally ordered by txid.  A writer's id is greater
\* than the txid that was authoritative when it began (that of every
\* commit before it) and than the id of every open reader, and the meta its
\* commit installs has the txid that was authoritative at its begin plus 1.
C11_WriterTxidOrder ==
  \A t \in Writers :
    /\ txmeta[t].txid > authoritative(wbase[1]).txid
    /\ \A r \in Readers : txmeta[t].txid > txmeta[r].txid
    /\ pc[t] = "metawritten" =>
         backend_meta.txid = authoritative(wbase[1]).txid + 1

\* The entries of the writer's root bucket: those of its root node when
\* there is one, of its root page otherwise.
BucketInodes == page_node(pages, nodes, bucket_header.root).inodes

\* What a key is in a sequence of entries: "absent", a "plain" value or a
\* "bucket".
EntryKind(inodes, k) ==
  IF search_exact(inodes, k) = 0 THEN "absent"
  ELSE IF HasFlag(inodes[search_exact(inodes, k)].flags, BUCKET_LEAF_FLAG)
  THEN "bucket"
  ELSE "plain"

\* The value of key k's entry.
EntryValue(inodes, k) == inodes[search_exact(inodes, k)].value

\* What the open writer's get(k) returns.
WriterGet(k) == api_get(pages, nodes, bucket_header.root, k)

\* A step in which writer t makes the call of that name.
CallStep(t, name) ==
  pc[t] = "write" /\ nops' = nops + 1 /\ result'[1] = name

\* A step of writer t that leaves the transaction open and the bucket with
\* the entries it had.
BucketUnchanged(t) ==
  pc'[t] = "write" /\ BucketInodes' = BucketInodes /\ buckets' = buckets

\* C12: read-your-writes.  After put(k, v) has returned Ok in an open
\* writer, get(k) returns v.
C12_ReadYourWrites ==
  \A t \in Threads :
    (pc[t] = "write" /\ result[1] = "put" /\ result[4] = "Ok") =>
      WriterGet(result[2]) = result[3]

\* C13: a put that passes the size checks returns IncompatibleValue when
\* its key is the key of a bucket entry and in no other case; otherwise it
\* returns Ok and the key is an entry afterwards.
C13_PutAcceptsNewKeys ==
  [][\A t \in Threads :
       (CallStep(t, "put") /\ put_size_error(result'[2], result'[3]) = "none") =>
         IF EntryKind(BucketInodes, result'[2]) = "bucket"
         THEN result'[4] = "IncompatibleValue"
         ELSE /\ result'[4] = "Ok"
              /\ EntryKind(BucketInodes', result'[2]) = "plain"]_vars

\* C14: put idempotence.  A put(k, v) that follows a put(k, v) which
\* returned Ok returns Ok and leaves the entries and what get returns for
\* every key as the first put left them.
C14_PutIdempotent ==
  [][\A t \in Threads :
       (/\ CallStep(t, "put")
        /\ result[1] = "put" /\ result[4] = "Ok"
        /\ result'[2] = result[2] /\ result'[3] = result[3]) =>
         /\ result'[4] = "Ok"
         /\ BucketUnchanged(t)
         /\ \A k \in Keys : WriterGet(k)' = WriterGet(k)]_vars

C16_GetExactOrNone ==
  \A t \in Threads :
    pc[t] = "write" =>
      \A k \in Keys :
        WriterGet(k) = IF EntryKind(BucketInodes, k) = "plain"
                       THEN EntryValue(BucketInodes, k)
                       ELSE 0

\* The entries without the one of key k.
WithoutKey(inodes, k) ==
  IF search_exact(inodes, k) = 0 THEN inodes
  ELSE RemoveAt(inodes, search_exact(inodes, k))

\* C17: delete(k) returns Ok and changes nothing when k has no entry,
\* returns IncompatibleValue and changes nothing when k is a bucket, and
\* otherwise returns Ok, removes k's entry and no other, and get(k) then
\* returns none.
C17_Delete ==
  [][\A t \in Threads :
       CallStep(t, "delete") =>
         LET k == result'[2]
             kind == EntryKind(BucketInodes, k)
         IN IF kind = "absent"
            THEN result'[4] = "Ok" /\ BucketUnchanged(t)
            ELSE IF kind = "bucket"
            THEN result'[4] = "IncompatibleValue" /\ BucketUnchanged(t)
            ELSE /\ result'[4] = "Ok"
                 /\ pc'[t] = "write"
                 /\ BucketInodes' = WithoutKey(BucketInodes, k)
                 /\ api_get(pages', nodes', bucket_header'.root, k) = 0]_vars

\* C18: create_bucket(name) returns BucketNameRequired for the empty
\* name, BucketExists when name is a bucket, IncompatibleValue when name is
\* a plain key, the bucket unchanged in the three cases; otherwise it
\* returns Ok, name is a bucket entry and bucket(name) returns it.
C18_CreateBucket ==
  [][\A t \in Threads :
       CallStep(t, "create_bucket") =>
         LET k == result'[2]
             kind == EntryKind(BucketInodes, k)
         IN IF k = 0
            THEN result'[4] = "BucketNameRequired" /\ BucketUnchanged(t)
            ELSE IF kind = "bucket"
            THEN result'[4] = "BucketExists" /\ BucketUnchanged(t)
            ELSE IF kind = "plain"
            THEN result'[4] = "IncompatibleValue" /\ BucketUnchanged(t)
            ELSE /\ result'[4] = "Ok"
                 /\ pc'[t] = "write"
                 /\ EntryKind(BucketInodes', k) = "bucket"
                 /\ api_bucket(pages', nodes', buckets',
                               bucket_header'.root, k) = "some"]_vars

\* C19: create_bucket_if_not_exists(name) returns BucketNameRequired for
\* the empty name and IncompatibleValue when name is a plain key; when
\* name is a bucket it returns Ok and leaves every entry as it was; when
\* name has no entry it returns Ok and name is a bucket entry.
C19_CreateBucketIfNotExists ==
  [][\A t \in Threads :
       CallStep(t, "create_bucket_if_not_exists") =>
         LET k == result'[2]
             kind == EntryKind(BucketInodes, k)
         IN IF k = 0
            THEN result'[4] = "BucketNameRequired" /\ BucketUnchanged(t)
            ELSE IF kind = "plain"
            THEN result'[4] = "IncompatibleValue" /\ BucketUnchanged(t)
            ELSE IF kind = "bucket"
            THEN /\ result'[4] = "Ok"
                 /\ pc'[t] = "write"
                 /\ BucketInodes' = BucketInodes
            ELSE /\ result'[4] = "Ok"
                 /\ pc'[t] = "write"
                 /\ EntryKind(BucketInodes', k) = "bucket"]_vars

\* C20: delete_bucket(name) returns Ok when name is a bucket, and then
\* name has no entry; it returns BucketNotFound when name has no entry and
\* IncompatibleValue when name is a plain key.
C20_DeleteBucket ==
  [][\A t \in Threads :
       CallStep(t, "delete_bucket") =>
         LET k == result'[2]
             kind == EntryKind(BucketInodes, k)
         IN IF kind = "bucket"
            THEN /\ result'[4] = "Ok"
                 /\ pc'[t] = "write"
                 /\ EntryKind(BucketInodes', k) = "absent"
            ELSE IF kind = "absent"
            THEN result'[4] = "BucketNotFound"
            ELSE result'[4] = "IncompatibleValue"]_vars

\* The user-input errors.
UserErrors ==
  {"BucketNotFound", "BucketExists", "BucketNameRequired", "KeyRequired",
   "KeyTooLarge", "ValueTooLarge", "IncompatibleValue"}

\* C21: a call of an open writer that returns a user-input error leaves
\* the transaction Active and everything but the call's result as it was:
\* the nodes, the bucket header and cache, the dirty pages, the
\* transaction's meta, the file, the metas and the freelist, so that what
\* follows goes on from the state before the call.
C21_UserErrorsHaveNoEffect ==
  [][\A t \in Threads :
       (pc[t] = "write" /\ nops' = nops + 1 /\ result'[4] \in UserErrors) =>
         /\ pc'[t] = "write"
         /\ wend' = wend
         /\ UNCHANGED <<nodes, root_node, bucket_header, buckets, txpages,
                        txmeta, is_rollback, dbvars, wexp>>]_vars

\* C21's case: a call has returned a user-input error in a writer that had
\* already changed its bucket, and the writer is open.
C21_Witness ==
  \E t \in Threads :
    pc[t] = "write" /\ result[4] \in UserErrors /\ nodes # EmptyFn

\* bucket.rs BucketImpl::api_sequence of the writer's bucket.
api_sequence == bucket_header.sequence

\* C22: in an open writer set_sequence(v) returns Ok and sequence() is v
\* afterwards; next_sequence returns Ok with the previous sequence() plus
\* one and sequence() is then that value, so consecutive calls return
\* consecutive values; and no other step of an open writer changes
\* sequence().
C22_SequenceCounter ==
  [][\A t \in Threads :
       /\ CallStep(t, "set_sequence") =>
            /\ result'[4] = "Ok"
            /\ pc'[t] = "write"
            /\ api_sequence' = result'[3]
       /\ CallStep(t, "next_sequence") =>
            /\ result'[4] = "Ok"
            /\ pc'[t] = "write"
            /\ result'[3] = api_sequence + 1
            /\ api_sequence' = result'[3]
       /\ (/\ pc[t] = "write" /\ pc'[t] = "write"
           /\ ~CallStep(t, "set_sequence") /\ ~CallStep(t, "next_sequence")) =>
            api_sequence' = api_sequence]_vars

\* C22's case: the second of two sequence calls of one writer is a
\* next_sequence, returning a value above one.
C22_Witness ==
  \E t \in Threads :
    /\ pc[t] = "write"
    /\ result[1] = "next_sequence" /\ result[4] = "Ok"
    /\ result[3] = MaxSeq + 1 /\ api_sequence = MaxSeq + 1

\* The keys of a sequence of entries, and of those that are buckets.
EntryKeys(inodes) == {inodes[i].key : i \in DOMAIN inodes}
BucketKeys(inodes) ==
  {inodes[i].key : i \in {j \in DOMAIN inodes : IsBucketElem(inodes[j])}}

\* The keys of a set in ascending order.
Ascending(S) ==
  CHOOSE s \in [1..Cardinality(S) -> S] :
    \A i, j \in 1..Cardinality(S) : i < j => s[i] < s[j]

\* The calls of f a traversal of the keys S makes when f fails at fk: all
\* of S in ascending order, up to and including fk when fk is in S.
ExpectedCalls(S, fk) ==
  LET s == Ascending(S)
  IN IF fk \in S THEN SubSeq(s, 1, CHOOSE i \in DOMAIN s : s[i] = fk) ELSE s

ExpectedResult(S, fk) == IF fk \in S THEN "FnError" ELSE "Ok"

\* C23: for_each of an open writer calls f once for each entry of the
\* bucket, in ascending key order, up to and including the first entry at
\* which f returns an error, and returns that error, or Ok when f never
\* fails; for_each_bucket does the same over the entries that are buckets.
C23_ForEach ==
  [][\A t \in Threads :
       /\ CallStep(t, "for_each") =>
            /\ result'[3] = ExpectedCalls(EntryKeys(BucketInodes), result'[2])
            /\ result'[4] = ExpectedResult(EntryKeys(BucketInodes), result'[2])
       /\ CallStep(t, "for_each_bucket") =>
            /\ result'[3] = ExpectedCalls(BucketKeys(BucketInodes), result'[2])
            /\ result'[4] = ExpectedResult(BucketKeys(BucketInodes), result'[2])]_vars

\* The same traversals in a writer that has not yet changed or
\* materialized anything.
C23_ForEachOverPages ==
  [][\A t \in Threads :
       nodes = EmptyFn =>
         /\ CallStep(t, "for_each") =>
              /\ result'[3] = ExpectedCalls(EntryKeys(BucketInodes), result'[2])
              /\ result'[4] = ExpectedResult(EntryKeys(BucketInodes), result'[2])
         /\ CallStep(t, "for_each_bucket") =>
              /\ result'[3] = ExpectedCalls(BucketKeys(BucketInodes), result'[2])
              /\ result'[4] = ExpectedResult(BucketKeys(BucketInodes), result'[2])]_vars

\* The rule: no entry is a sub-bucket and the encoded size, the page header
\* plus element size, key length and value length of each entry, is at
\* most a quarter of the page size.
InlineRule(inodes) ==
  /\ \A i \in 1..Len(inodes) : ~HasFlag(inodes[i].flags, BUCKET_LEAF_FLAG)
  /\ inline_size(inodes, Len(inodes)) <= DEFAULT_PAGE_SIZE \div 4

\* C24: the bucket of an open writer is found inlineable, and so written
\* inline by the commit, exactly when it has no sub-bucket entry and its
\* encoded size is at most a quarter of the page size.
C24_InlineRule ==
  \A t \in Threads :
    pc[t] = "write" =>
      (inlineable(root_node, nodes, DEFAULT_PAGE_SIZE) <=> InlineRule(BucketInodes))

\* The states of spec.md 4.G for the transaction a thread runs: Active,
\* Committing, or ended (Committed or Rolled-back, or none begun).
TxActive(t) == pc[t] \in {"read", "write"}
TxCommitting(t) == pc[t] \in WriterStates \ {"write"}
TxEnded(t) == pc[t] \in {"idle", "waitR", "waitW"}

\* A step that ends t's write transaction Committed, or Rolled-back: by
\* rollback, by an unwinding call or by a commit that fails.
EndsCommitted(t) == TxEnded(t)' /\ wend' = "committed" /\ ~is_rollback'[t]
EndsRolledBack(t) ==
  TxEnded(t)' /\ wend' \in {"rolledback", "panicked", "failed", "metafailed"}

\* Rollback ends a transaction and an ended transaction is terminal: a
\* transaction whose rollback flag is set is not open, and while no write
\* transaction is open no step but the begin of a new one changes the
\* call results, the way the last writer ended, or the workspace, and no
\* step at all changes the metas or the pages.
Terminal ==
  /\ \A t \in Threads : is_rollback'[t] => TxEnded(t)'
  /\ Writers = {} =>
       /\ UNCHANGED <<metas, pages, lastcommit>>
       /\ \/ UNCHANGED <<wsvars, result, wend>>
          \/ \E t \in Threads : pc[t] = "waitW" /\ pc'[t] = "write"

\* What a read transaction and an Active write transaction may do in a
\* step: a read transaction stays or ends, never Committing; a write
\* transaction stays Active, goes to Committing, or ends Rolled-back.
FromActive(t) ==
  /\ pc[t] = "read" => pc'[t] \in {"read", "idle"}
  /\ pc[t] = "write" =>
       \/ pc'[t] \in {"write", "spilled"}
       \/ EndsRolledBack(t)

RunStarts(free, n) == {p \in free : \A i \in 0..(n - 1) : (p + i) \in free}

\* C26: allocate(txid, n) returns the lowest id that starts a run of n
\* free ids and takes exactly that run out of free and out of cache, the
\* pending sets staying as they are; when there is no run it returns none
\* and the freelist is unchanged.
C26_FreelistAllocate ==
  [][(result'[1] = "allocate" /\ nops' = nops + 1) =>
       LET n == result'[2]
           p == result'[3]
           starts == RunStarts(freelist.free, n)
       IN IF starts = {}
          THEN p = 0 /\ freelist' = freelist
          ELSE /\ p \in starts
               /\ \A q \in starts : p <= q
               /\ freelist'.free = freelist.free \ (p..(p + n - 1))
               /\ freelist'.cache = freelist.cache \ (p..(p + n - 1))
               /\ freelist'.pending = freelist.pending]_vars

\* C26's case: an allocate of a run of two has passed over a lower free id
\* that starts no run.
C26_Witness ==
  /\ result[1] = "allocate" /\ result[2] = MaxRun /\ result[3] # 0
  /\ \E q \in freelist.free : q < result[3]

\* C27: the cache is the union of the free set and the pending sets, these
\* are pairwise disjoint, none holds an id below 2, and freed(id) is true
\* of exactly the ids in them.
C27_FreelistCache ==
  /\ freelist.cache = freelist.free \cup AllPending(freelist)
  /\ \A x \in TxIds : freelist.free \cap freelist.pending[x] = {}
  /\ \A x, y \in TxIds :
       x # y => freelist.pending[x] \cap freelist.pending[y] = {}
  /\ \A id \in freelist.cache : id >= 2
  /\ \A id \in 0..(MaxPgid + MaxRun) :
       freelist_freed(freelist, id) <=>
         id \in freelist.free \cup AllPending(freelist)

\* C27's case: a rollback is the last of a full run of calls, and free ids
\* and a pending set remain beside ids that are in no set.
C27_Witness ==
  /\ result[1] = "rollback" /\ nops = MaxFlOps
  /\ freelist.free # {}
  /\ AllPending(freelist) # {}
  /\ freelist.cache # (2..(MaxPgid - 1))

\* C28: delete_bucket(name) of an open writer, name being a sub-bucket of
\* its bucket, leaves the writer open and the bucket with the entries it
\* had less the one of that name; a delete_bucket that returns without
\* unwinding, whatever it returns, changes no entry of another name.
C28_DeleteBucketFrame ==
  [][\A t \in Threads :
       CallStep(t, "delete_bucket") =>
         /\ EntryKind(BucketInodes, result'[2]) = "bucket" =>
              /\ pc'[t] = "write"
              /\ BucketInodes' = WithoutKey(BucketInodes, result'[2])
         /\ pc'[t] = "write" =>
              WithoutKey(BucketInodes', result'[2])
                = WithoutKey(BucketInodes, result'[2])]_vars

\* The part of C28 that is about the other entries alone.
C28_OtherEntriesKept ==
  [][\A t \in Threads :
       (CallStep(t, "delete_bucket") /\ pc'[t] = "write") =>
         WithoutKey(BucketInodes', result'[2])
           = WithoutKey(BucketInodes, result'[2])]_vars

\* C29: bucket(name) of an open writer returns a bucket when name is the
\* key of a bucket entry and none otherwise; a bucket it has returned is
\* in the cache, from which every later bucket(name) returns it; and after
\* a delete_bucket(name) that returned Ok the cache does not hold name.
C29_BucketLookup ==
  [][\A t \in Threads :
       /\ CallStep(t, "bucket") =>
            /\ pc'[t] = "write"
            /\ result'[4] = IF EntryKind(BucketInodes, result'[2]) = "bucket"
                            THEN "some" ELSE "none"
            /\ result'[4] = "some" => result'[2] \in buckets'
            /\ result'[2] \in buckets => result'[4] = "some"
       /\ (CallStep(t, "delete_bucket") /\ result'[4] = "Ok") =>
            ~(result'[2] \in buckets')]_vars

\* The part of C29 that is about the cache alone.
C29_CachedBucketReturned ==
  [][\A t \in Threads :
       CallStep(t, "bucket") =>
         /\ (pc'[t] = "write" /\ result'[4] = "some") => result'[2] \in buckets'
         /\ result'[2] \in buckets => result'[4] = "some"]_vars

\* C30: after set_sequence or next_sequence has returned Ok in an open
\* writer the bucket's root node is set and is the node of the root page
\* in the node cache; and a node once in the cache stays the node of its
\* page id while the writer makes calls.
C30_RootMaterialized ==
  [][\A t \in Threads :
       /\ ((CallStep(t, "set_sequence") \/ CallStep(t, "next_sequence"))
             /\ result'[4] = "Ok") =>
            /\ root_node' # 0
            /\ bucket_header'.root \in DOMAIN nodes'
       /\ (pc[t] = "write" /\ pc'[t] = "write") =>
            DOMAIN nodes \subseteq DOMAIN nodes']_vars

\* The part of C30 that is about the node cache alone: the sequence calls
\* leave the root page's node in the cache, and node() adds to the cache
\* without replacing what it holds.
C30_NodeMemoized ==
  [][\A t \in Threads :
       /\ ((CallStep(t, "set_sequence") \/ CallStep(t, "next_sequence"))
             /\ result'[4] = "Ok") =>
            /\ bucket_header'.root \in DOMAIN nodes'
            /\ \A p \in DOMAIN nodes : nodes'[p] = nodes[p]
       /\ (pc[t] = "write" /\ pc'[t] = "write") =>
            DOMAIN nodes \subseteq DOMAIN nodes']_vars

\* The node of the node calls and the keys of its elements.
TheNode == nodes[NodePg]
KeysOf(inodes) == [i \in 1..Len(inodes) |-> inodes[i].key]
StrictlyAscending(inodes) ==
  \A i, j \in 1..Len(inodes) : i < j => inodes[i].key < inodes[j].key

\* C31: the keys of a node are strictly ascending before and after every
\* put(key, key, ..) and del(key); a put on a key the node holds replaces
\* that element and no other, a put on another key inserts one element
\* of that key at the lower-bound position, and a del removes the element
\* of exactly that key and no other.
C31_NodeOrdering ==
  [][LET old == TheNode.inodes
         new == TheNode'.inodes
         k == result'[2]
     IN /\ (nops' = nops + 1 /\ result'[1] = "node_put" /\ result'[4] = "Ok") =>
             /\ StrictlyAscending(old) /\ StrictlyAscending(new)
             /\ IF search_exact(old, k) # 0
                THEN /\ KeysOf(new) = KeysOf(old)
                     /\ \A i \in 1..Len(old) : old[i].key # k => new[i] = old[i]
                ELSE /\ Len(new) = Len(old) + 1
                     /\ new[lower_bound(old, k)].key = k
                     /\ RemoveAt(new, lower_bound(old, k)) = old
        /\ (nops' = nops + 1 /\ result'[1] = "node_del") =>
             /\ StrictlyAscending(old) /\ StrictlyAscending(new)
             /\ new = WithoutKey(old, k)]_vars

\* C31's case: after a del, a put has inserted a key between two others.
C31_Witness ==
  /\ result[1] = "node_put" /\ result[4] = "Ok" /\ nops = MaxNodeOps
  /\ \E i \in 2..(Len(TheNode.inodes) - 1) :
       /\ TheNode.inodes[i].key = result[2]
       /\ TheNode.inodes[i].value = result[2]
  /\ TheNode.unbalanced

\* The concatenation of a sequence of sequences.
RECURSIVE Concat(_)
Concat(ss) == IF ss = <<>> THEN <<>> ELSE Head(ss) \o Concat(Tail(ss))

\* The node that held the parts from the j-th on.
TailNode(n, parts, j) == [n EXCEPT !.inodes = Concat(SubSeq(parts, j, Len(parts)))]

RECURSIVE Below(_, _, _)
Below(pgs, id, depth) ==
  IF depth = 0 \/ ~is_branch(pgs[id]) THEN {}
  ELSE LET kids == {q \in DOMAIN pgs :
                      /\ read_in_ok(pgs[q])
                      /\ \E i \in 1..Len(pgs[id].inodes) : pgs[id].inodes[i].pgid = q}
       IN kids \cup UNION {Below(pgs, q, depth - 1) : q \in kids}

\* The root page of the committed tree, its non-root pages, and the size a
\* page's elements take on the page.
CommittedRoot == backend_meta.root.root
NonRootPages == Below(pages, CommittedRoot, MaxDepth)
OnPageSize(p) == size(read_in(pages[p], p))
Committed == wend = "committed"

\* A root that is a branch of one element whose child is a branch.
UncollapsedRoot ==
  /\ is_branch(pages[CommittedRoot])
  /\ Len(pages[CommittedRoot].inodes) = 1
  /\ is_branch(pages[pages[CommittedRoot].inodes[1].pgid])

MetaPages == {CommittedRoot, backend_meta.freelist} \cup NonRootPages

\* A step that spills a node, the node, and whether it is the root.
SpillStep == pc'[1] = "spilling" /\ nodes' # nodes
SpilledNode == result'[2]
SpillsRoot == SpilledNode = bucket_header.root

\* The dirty pages hold an element of that page id and key.
EntryWritten(txp, pgid, key) ==
  \E w \in DOMAIN txp : \E i \in 1..Len(txp[w].inodes) :
    txp[w].inodes[i].pgid = pgid /\ txp[w].inodes[i].key = key

C35_InlineableLeafOnly ==
  /\ (nops = 0 /\ is_leaf(pages[NodePg])) => TheNode.is_leaf
  /\ (result[1] = "inlineable" /\ result[4] = TRUE) => result[3] = TRUE

\* C36: freelist.free is never called for a page id that is already in the
\* freelist cache: a second free of a node does not hand its page to the
\* freelist again.
C36_FreedOnce ==
  [][(nops' = nops + 1 /\ result'[1] = "node_free" /\ result'[2] # ZERO_PGID)
       => result'[3] = FALSE]_vars

\* C37: every thread waiting in begin_rw gets the writer lock in the end,
\* and every thread waiting in begin gets its read transaction.
C37_WriterProgress ==
  \A t \in Threads :
    /\ (pc[t] = "waitW") ~> (pc[t] = "write")
    /\ (pc[t] = "waitR") ~> (pc[t] = "read")

\* The flags words of exactly one kind, and the kinds whose is_* test a
\* page passes.
KindFlags == {BRANCH_PAGE_FLAG, LEAF_PAGE_FLAG, META_PAGE_FLAG, FREE_LIST_PAGE_FLAG}
KindsOf(p) ==
  {type \in PageTypes :
     \/ type = "branch" /\ is_branch(p)
     \/ type = "leaf" /\ is_leaf(p)
     \/ type = "meta" /\ is_meta(p)
     \/ type = "freelist" /\ is_free_list(p)}

\* C38: coerce_ref to a type gives Some exactly when the page's flags are
\* that type's flag; mut_into leaves the page with exactly that flag;
\* fast_check fails exactly when the id differs or the flags are not one of
\* the four kinds; and a page that passes it passes exactly one of
\* is_branch, is_leaf, is_meta and is_free_list, that of the one type
\* coerce_ref gives Some for.
C38_PageTyping ==
  /\ result[1] = "coerce_ref" =>
       (result[4] = "Some" <=> ThePage.flags = page_flag(result[2]))
  /\ result[1] = "mut_into" =>
       /\ ThePage.flags = page_flag(result[2])
       /\ KindsOf(ThePage) = {result[2]}
  /\ result[1] = "fast_check" =>
       /\ result[4] = "panic" <=>
            (ThePage.id # result[2] \/ ThePage.flags \notin KindFlags)
       /\ result[4] = "Ok" =>
            /\ Cardinality(KindsOf(ThePage)) = 1
            /\ \A type \in PageTypes :
                 coerce_ref(ThePage, type) <=> type \in KindsOf(ThePage)

\* C38's case: fast_check with the page's id has passed on a freelist
\* page.
C38_Witness ==
  /\ result = <<"fast_check", ThePage.id, FREE_LIST_PAGE_FLAG, "Ok">>
  /\ ThePage.flags = FREE_LIST_PAGE_FLAG

\* A step that is a Tx.page or Tx.size call, and the thread that made it.
InfoStep(name) == result'[1] = name /\ UNCHANGED <<pc, txmeta, dbvars>>
Caller == result'[3]

\* The type a page's flags give it.
OwnType(p) ==
  IF p.flags = BRANCH_PAGE_FLAG THEN "branch"
  ELSE IF p.flags = LEAF_PAGE_FLAG THEN "leaf"
  ELSE IF p.flags = META_PAGE_FLAG THEN "meta"
  ELSE IF p.flags = FREE_LIST_PAGE_FLAG THEN "freelist"
  ELSE "unknown"

C40_SizeLessThan ==
  [][(nops' = nops + 1 /\ result'[1] = "size_less_than")
       => (result'[4] = TRUE <=> result'[3] < result'[2])]_vars
====
